---------------------------- MODULE Spec2Model ----------------------------
(***************************************************************************)
(* A model of CosmWasmClient (src/src/libs/cosmwasm-launchpad/             *)
(* cosmwasmclient.ts): the transaction search with its two-list merge and  *)
(* its pagination guard, and the memoized state of one client instance     *)
(* (chain id, code cache, known-valid-address hint) under the event loop:  *)
(* an async method runs atomically from one await to the next, and calls   *)
(* from different callers interleave at the awaits. With it the message    *)
(* builders of rest/api.ts and loadPairs of rest/useAPI.ts.                *)
(*                                                                         *)
(* SpecSearch:     one searchTx / getTx call against an arbitrary backend. *)
(* Spec:           NumCallers callers issuing getChainId / getCodeDetails  *)
(*                 calls on one client instance, overlapping at will.      *)
(* SpecHint:       NumCallers callers issuing getAccount / getSequence /   *)
(*                 getHeight / getCodes calls, overlapping at will.        *)
(* SpecMemo:       the operations that write the memoized state:           *)
(*                 overlapping getChainId / getCodeDetails calls among the *)
(*                 getAccount / getCodes calls of one caller.              *)
(* SpecSequential: one caller using the operations of the client, the      *)
(*                 contract queries and broadcastTx included, one call     *)
(*                 after the other.                                        *)
(* SpecAllOperations: one caller using every operation of the client,      *)
(*                 getBlock, getIdentifier, getContracts and the           *)
(*                 transaction search among them.                          *)
(* SpecLcd:        NumCallers callers of the LCD extension's               *)
(*                 wasm.queryContractRaw.                                  *)
(* SpecApi:        calls of simulateSwap, generateContractMessages and     *)
(*                 handleSentFunds with arbitrary arguments.               *)
(* SpecPairs:      one loadPairs call against an arbitrary backend.        *)
(***************************************************************************)
EXTENDS Integers, Sequences, FiniteSets, TLC

(***************************************************************************)
(* Bounds of the model.                                                    *)
(***************************************************************************)
\* Longest transaction list a backend response carries.
MaxLen == 3
\* Number of concurrent callers of the client instance.
NumCallers == 2
\* Number of client calls started in one behaviour.
MaxCalls == 3
\* Longest transaction hash a broadcast response carries.
MaxHashLen == 2
\* Largest number of arguments handleSentFunds is called with.
MaxFunds == 3
\* Longest list of pairs a response carries.
MaxPairs == 2
\* Largest number of non-empty pages the factory has.
MaxPages == 2

(***************************************************************************)
(* Program constants.                                                      *)
(***************************************************************************)
\* const limit = 100 in txsQuery.
limit == 100
\* Number.MAX_SAFE_INTEGER is 2^53 - 1; the model uses the largest integer
\* TLC computes with, which like 2^53 - 1 is above every height handled here.
MAX_SAFE_INTEGER == 2147483647

VARIABLES
  \* ---- one searchTx / getTx call ----
  sPc,            \* "idle" | "await" | "done": position of the call
  sOp,            \* "none" | "searchTx" | "getTx"
  sQuery,         \* the query argument (a record of one of the query shapes)
  sFilter,        \* the filter argument (minHeight / maxHeight both optional)
  sReqs,          \* per underlying txsQuery: its state and the backend's response
  sResult,        \* what the call returned or threw
  txsQueryCalls,  \* number of lcdClient.txsQuery requests issued
  \* ---- the client instance ----
  chainId,        \* this.chainId
  codesCache,     \* this.codesCache: a map, code id -> CodeDetails
  anyValidAddress,\* this.anyValidAddress
  \* ---- callers of the client instance ----
  pc,             \* per caller: "idle" or the method it is suspended in
  call,           \* per caller: the call in progress or, when idle, its last call
  resp,           \* per caller: the backend response its last await received
  ret,            \* per caller: what its last call returned or threw
  nodeInfoCalls,  \* number of lcdClient.nodeInfo requests issued
  getCodeCalls,   \* number of lcdClient.wasm.getCode requests issued
  calls,          \* number of client calls started
  requests,       \* per caller: the backend requests its call has issued
  \* ---- history ----
  firstChainId,   \* the value of the first successful getChainId
  chainIdOverlap, \* whether a getChainId call started while another was in flight
  firstCodeDetails,\* per code id: the result of the first successful getCodeDetails
  observed,       \* the addresses backend responses have shown to exist
  \* ---- rest/api.ts: one call of a message builder ----
  apiPc,          \* "idle" | "await": position of the call
  apiCall,        \* the function called and its arguments
  apiSent,        \* the query handed to querySmart, once sent
  apiRet,         \* what the call returned or threw
  \* ---- rest/useAPI.ts: one loadPairs call ----
  lpPc,           \* "idle" | "primary" | "fallback" | "done"
  lpResult,       \* result.pairs
  lastPair,       \* lastPair: the asset_infos the next page starts after
  lpRequests,     \* the factory requests sent, one per page asked for
  lpResponse,     \* the response the last await received
  lpRet           \* what the call returned or threw

searchVars == <<sPc, sOp, sQuery, sFilter, sReqs, sResult, txsQueryCalls>>
clientVars == <<chainId, codesCache, anyValidAddress>>
callerVars ==
  <<pc, call, resp, ret, nodeInfoCalls, getCodeCalls, calls, requests>>
historyVars == <<firstChainId, chainIdOverlap, firstCodeDetails, observed>>
apiVars == <<apiPc, apiCall, apiSent, apiRet>>
pairsVars == <<lpPc, lpResult, lastPair, lpRequests, lpResponse, lpRet>>
restVars == <<apiVars, pairsVars>>
vars == <<searchVars, clientVars, callerVars, historyVars, restVars>>

(***************************************************************************)
(* Values.                                                                 *)
(***************************************************************************)
\* The undefined of a string-typed field.
Undefined == "<undefined>"

\* A resolved promise, a rejected promise (an Error with its message), and
\* the state of a call that has not finished.
Ok(v) == [kind |-> "ok", value |-> v]
Err(m) == [kind |-> "error", message |-> m]
NoResult == [kind |-> "none"]

EmptyRecord == [x \in {} |-> 0]

\* null and undefined, where a record, an array or a string may stand too,
\* and an array in such a place.
Null == [kind |-> "null"]
UndefinedValue == [kind |-> "undefined"]
Array(elements) == [kind |-> "array", value |-> elements]

(***************************************************************************)
(* searchTx: the backend side.                                             *)
(***************************************************************************)
\* The transactions of the chain, as the REST API reports them. A hash
\* identifies one transaction, so it has one height; A and B share a block.
RestTxs ==
  { [txhash |-> "A", height |-> 1], [txhash |-> "B", height |-> 1],
    [txhash |-> "C", height |-> 2], [txhash |-> "D", height |-> 3] }

RECURSIVE SeqsNoRepeat(_, _)
\* All sequences of at most n distinct elements of S.
SeqsNoRepeat(S, n) ==
  IF n = 0 THEN { <<>> }
  ELSE LET shorter == SeqsNoRepeat(S, n - 1)
       IN  shorter \cup
           { Append(s, x) : s \in { t \in shorter : Len(t) = n - 1 },
                            x \in S }

NoRepeat(s) == \A i, j \in 1..Len(s) : i # j => s[i] # s[j]

\* The "txs" page of a search response: any order, no transaction twice.
RestTxLists == { s \in SeqsNoRepeat(RestTxs, MaxLen) : NoRepeat(s) }

\* page_total as the backend derives it from total_count and the limit.
PageTotal(total_count) == (total_count + limit - 1) \div limit

\* A search response: the page and the totals. With no more matches than
\* the limit the page holds them all; with more, txs stands for the first
\* page.
SearchResponses ==
  UNION { { [txs |-> t, total_count |-> n, page_total |-> PageTotal(n)] :
              n \in {Len(t), limit + 1} } : t \in RestTxLists }

(***************************************************************************)
(* searchTx: the client side.                                              *)
(***************************************************************************)
Heights == 0..3
Queries ==
  { [height |-> h] : h \in Heights } \cup
  { [sentFromOrTo |-> "addr"], [tags |-> "k=v"], [id |-> "x"] }
isSearchByHeightQuery(query) == "height" \in DOMAIN query
isSearchBySentFromOrToQuery(query) == "sentFromOrTo" \in DOMAIN query
isSearchByTagsQuery(query) == "tags" \in DOMAIN query

\* SearchTxFilter: each subset of the two optional fields.
Filters ==
  UNION { [D -> 0..2] : D \in SUBSET {"minHeight", "maxHeight"} }

\* filter.minHeight || 0
MinHeightOf(filter) ==
  IF "minHeight" \in DOMAIN filter /\ filter.minHeight # 0
  THEN filter.minHeight ELSE 0
\* filter.maxHeight || Number.MAX_SAFE_INTEGER: a maxHeight of 0 is falsy.
MaxHeightOf(filter) ==
  IF "maxHeight" \in DOMAIN filter /\ filter.maxHeight # 0
  THEN filter.maxHeight ELSE MAX_SAFE_INTEGER

\* restItem -> IndexedTx, the fields the search reads.
IndexedTx(restItem) == [hash |-> restItem.txhash, height |-> restItem.height]

PaginationError ==
  Err("Found more results on the backend than we can process currently")

\* txsQuery without the page_total check: a truncated page is returned.
TxsQueryResult_NoPageCheck(response) ==
  Ok([i \in 1..Len(response.txs) |-> IndexedTx(response.txs[i])])

\* txsQuery, from the response on: throws when there is more than one page.
TxsQueryResult(response) ==
  IF response.page_total > 1
  THEN PaginationError
  ELSE Ok([i \in 1..Len(response.txs) |-> IndexedTx(response.txs[i])])

RECURSIVE Merge_ReceivedFirst(_, _)
\* The merge with the height comparison turned around (>= for <=).
Merge_ReceivedFirst(sent, received) ==
  IF sent = <<>> \/ received = <<>>
  THEN sent \o received
  ELSE IF Head(sent).hash = Head(received).hash
       THEN <<Head(received)>> \o Merge_ReceivedFirst(Tail(sent), Tail(received))
       ELSE IF Head(sent).height >= Head(received).height
            THEN <<Head(sent)>> \o Merge_ReceivedFirst(Tail(sent), received)
            ELSE <<Head(received)>> \o Merge_ReceivedFirst(sent, Tail(received))

RECURSIVE Merge_TieReceived(_, _)
\* The merge with < for <=: of two heads of equal height the received one
\* goes first.
Merge_TieReceived(sent, received) ==
  IF sent = <<>> \/ received = <<>>
  THEN sent \o received
  ELSE IF Head(sent).hash = Head(received).hash
       THEN <<Head(received)>> \o Merge_TieReceived(Tail(sent), Tail(received))
       ELSE IF Head(sent).height < Head(received).height
            THEN <<Head(sent)>> \o Merge_TieReceived(Tail(sent), received)
            ELSE <<Head(received)>> \o Merge_TieReceived(sent, Tail(received))

RECURSIVE Merge(_, _)
\* The while loop over sent / received and the final concatenation.
Merge(sent, received) ==
  IF sent = <<>> \/ received = <<>>
  THEN sent \o received
  ELSE IF Head(sent).hash = Head(received).hash
       THEN <<Head(received)>> \o Merge(Tail(sent), Tail(received))
       ELSE IF Head(sent).height <= Head(received).height
            THEN <<Head(sent)>> \o Merge(Tail(sent), received)
            ELSE <<Head(received)>> \o Merge(sent, Tail(received))

\* txs.filter(tx => tx.height >= minHeight && tx.height <= maxHeight)
HeightFilter(txs, minHeight, maxHeight) ==
  SelectSeq(txs, LAMBDA tx : tx.height >= minHeight /\ tx.height <= maxHeight)

NoRequest == [state |-> "none"]
Pending == [state |-> "pending"]
Arrived(r) == [state |-> "arrived", response |-> r]
Slots == {"query", "sent", "received"}

\* maxHeight < minHeight: the early return.
EmptyRange(filter) == MaxHeightOf(filter) < MinHeightOf(filter)

\* The height query that is answered without a request.
HeightOutOfRange(query, filter) ==
  query.height < MinHeightOf(filter) \/ query.height > MaxHeightOf(filter)

\* searchTx up to its first await.
SearchTxStart ==
  /\ sPc = "idle"
  /\ \E query \in Queries, filter \in Filters :
       /\ sOp' = "searchTx"
       /\ sQuery' = query
       /\ sFilter' = filter
       /\ IF EmptyRange(filter)
          THEN /\ sResult' = Ok(<<>>)
               /\ sPc' = "done"
               /\ UNCHANGED <<sReqs, txsQueryCalls>>
          ELSE IF isSearchByHeightQuery(query)
          THEN IF HeightOutOfRange(query, filter)
               THEN /\ sResult' = Ok(HeightFilter(<<>>, MinHeightOf(filter),
                                                  MaxHeightOf(filter)))
                    /\ sPc' = "done"
                    /\ UNCHANGED <<sReqs, txsQueryCalls>>
               ELSE /\ sReqs' = [sReqs EXCEPT !["query"] = Pending]
                    /\ txsQueryCalls' = txsQueryCalls + 1
                    /\ sPc' = "await"
                    /\ UNCHANGED sResult
          ELSE IF isSearchBySentFromOrToQuery(query)
          THEN /\ sReqs' = [sReqs EXCEPT !["sent"] = Pending,
                                         !["received"] = Pending]
               /\ txsQueryCalls' = txsQueryCalls + 2
               /\ sPc' = "await"
               /\ UNCHANGED sResult
          ELSE IF isSearchByTagsQuery(query)
          THEN /\ sReqs' = [sReqs EXCEPT !["query"] = Pending]
               /\ txsQueryCalls' = txsQueryCalls + 1
               /\ sPc' = "await"
               /\ UNCHANGED sResult
          ELSE /\ sResult' = Err("Unknown query type")
               /\ sPc' = "done"
               /\ UNCHANGED <<sReqs, txsQueryCalls>>
  /\ UNCHANGED <<clientVars, callerVars, historyVars, restVars>>

\* getTx up to its await.
GetTxStart ==
  /\ sPc = "idle"
  /\ sOp' = "getTx"
  /\ sQuery' = [id |-> "x"]
  /\ sReqs' = [sReqs EXCEPT !["query"] = Pending]
  /\ txsQueryCalls' = txsQueryCalls + 1
  /\ sPc' = "await"
  /\ UNCHANGED <<sFilter, sResult>>
  /\ UNCHANGED <<clientVars, callerVars, historyVars, restVars>>

\* The rest of searchTx once txs is known: the final height filter.
SearchTxReturn(txs, filter) ==
  Ok(HeightFilter(txs, MinHeightOf(filter), MaxHeightOf(filter)))

\* results[0] ?? null
GetTxReturn(results) ==
  IF Len(results) > 0 THEN Ok(<<results[1]>>) ELSE Ok(<<>>)

\* The continuation merging the two results in the order they arrived in.
Continue_ArrivalOrder(reqs, slot) ==
  LET this == TxsQueryResult(reqs[slot].response)
      other == IF slot = "sent" THEN "received" ELSE "sent"
  IN  IF this.kind = "error" THEN this
      ELSE IF slot = "query"
      THEN IF sOp = "getTx" THEN GetTxReturn(this.value)
           ELSE SearchTxReturn(this.value, sFilter)
      ELSE IF reqs[other].state = "arrived"
      THEN SearchTxReturn(
             Merge(TxsQueryResult(reqs[other].response).value, this.value),
             sFilter)
      ELSE NoResult

\* What the call does when the response of one txsQuery arrives.
\* Promise.all rejects with the first rejection and resolves with the last
\* resolution; a single awaited txsQuery resolves or rejects the call.
Continue(reqs, slot) ==
  LET this == TxsQueryResult(reqs[slot].response)
      other == IF slot = "sent" THEN "received" ELSE "sent"
  IN  IF this.kind = "error" THEN this
      ELSE IF slot = "query"
      THEN IF sOp = "getTx" THEN GetTxReturn(this.value)
           ELSE SearchTxReturn(this.value, sFilter)
      ELSE IF reqs[other].state = "arrived"
      THEN SearchTxReturn(
             Merge(TxsQueryResult(reqs["sent"].response).value,
                   TxsQueryResult(reqs["received"].response).value),
             sFilter)
      ELSE NoResult

\* The backend answers one txsQuery and the call runs on from its await.
\* A response that arrives after Promise.all has rejected changes nothing.
TxsQueryRespond(slot) ==
  /\ sReqs[slot].state = "pending"
  /\ \E response \in SearchResponses :
       /\ sReqs' = [sReqs EXCEPT ![slot] = Arrived(response)]
       /\ IF sPc = "await"
          THEN /\ sResult' = Continue(sReqs', slot)
               /\ sPc' = IF sResult'.kind = "none" THEN "await" ELSE "done"
          ELSE UNCHANGED <<sPc, sResult>>
  /\ UNCHANGED <<sOp, sQuery, sFilter, txsQueryCalls>>
  /\ UNCHANGED <<clientVars, callerVars, historyVars, restVars>>

(***************************************************************************)
(* searchTx: the properties.                                               *)
(***************************************************************************)
\* The transactions of an arrived response, as (hash, height) entries.
Fetched(slot) ==
  [i \in 1..Len(sReqs[slot].response.txs) |->
     [hash |-> sReqs[slot].response.txs[i].txhash,
      height |-> sReqs[slot].response.txs[i].height]]

AscendingByHeight(txs) ==
  \A i, j \in 1..Len(txs) : i < j => txs[i].height <= txs[j].height

HashesOf(txs) == { txs[i].hash : i \in 1..Len(txs) }
Occurrences(txs, hash) == Cardinality({ i \in 1..Len(txs) : txs[i].hash = hash })

\* A sent-from-or-to search that has returned a sequence.
SentFromOrToReturned ==
  /\ sOp = "searchTx"
  /\ sPc = "done"
  /\ isSearchBySentFromOrToQuery(sQuery)
  /\ sResult.kind = "ok"
  /\ sReqs["sent"].state = "arrived"
  /\ sReqs["received"].state = "arrived"

\* Both underlying results are sorted ascending by height.
Presorted ==
  AscendingByHeight(Fetched("sent")) /\ AscendingByHeight(Fetched("received"))

\* C1: for presorted, duplicate-free sent and received lists the merged
\* sequence (the result of an unfiltered search) has length
\* |sent| + |received| - |shared hashes| and holds every shared hash once.
C1_MergeDeduplicates ==
  (SentFromOrToReturned /\ Presorted /\ DOMAIN sFilter = {}) =>
    LET A == Fetched("sent")
        B == Fetched("received")
        shared == HashesOf(A) \cap HashesOf(B)
    IN  /\ Len(sResult.value) = Len(A) + Len(B) - Cardinality(shared)
        /\ \A h \in shared : Occurrences(sResult.value, h) = 1

\* C2: when both underlying results are sorted ascending by height, the
\* sequence a sent-from-or-to search returns is non-decreasing by height.
C2_MergedAscending ==
  (SentFromOrToReturned /\ Presorted) => AscendingByHeight(sResult.value)

\* C2 witness: a merge that interleaved the two lists, with a tie in height.
C2_Witness ==
  /\ SentFromOrToReturned
  /\ Presorted
  /\ Len(Fetched("sent")) >= 2
  /\ Len(Fetched("received")) >= 2
  /\ Len(sResult.value) >= 3
  /\ sResult.value[1].height = sResult.value[2].height
  /\ sResult.value[1].hash \in HashesOf(Fetched("sent"))
  /\ sResult.value[2].hash \in HashesOf(Fetched("received"))
  /\ sResult.value[3].hash \in HashesOf(Fetched("sent"))

\* The filter names both bounds and the upper one is below the lower one.
InvertedFilter ==
  /\ DOMAIN sFilter = {"minHeight", "maxHeight"}
  /\ sFilter.maxHeight < sFilter.minHeight

\* C3: for every filter with maxHeight < minHeight (maxHeight = 0 included)
\* searchTx returns the empty sequence and issues no backend request.
C3_InvertedFilterEmptyNoRequest ==
  (sOp = "searchTx" /\ InvertedFilter) =>
    /\ txsQueryCalls = 0
    /\ sPc = "done"
    /\ sResult = Ok(<<>>)

\* The bounds of the filter as the caller gave them: an omitted minHeight
\* is 0, an omitted maxHeight is the largest safe integer.
GivenMin == IF "minHeight" \in DOMAIN sFilter THEN sFilter.minHeight ELSE 0
GivenMax ==
  IF "maxHeight" \in DOMAIN sFilter THEN sFilter.maxHeight ELSE MAX_SAFE_INTEGER

\* C4: a by-height search whose height is below filter.minHeight or above
\* filter.maxHeight returns the empty sequence without a backend request;
\* with the height inside the range exactly one request is issued.
C4_HeightQueryRange ==
  (sOp = "searchTx" /\ isSearchByHeightQuery(sQuery)) =>
    IF sQuery.height < GivenMin \/ sQuery.height > GivenMax
    THEN txsQueryCalls = 0 /\ sPc = "done" /\ sResult = Ok(<<>>)
    ELSE txsQueryCalls = 1

\* What a finished search fetched: the single result, the merge of the two
\* results, or nothing when no request was made.
FetchedOrMerged ==
  IF sReqs["query"].state = "arrived" THEN Fetched("query")
  ELSE IF sReqs["sent"].state = "arrived" /\ sReqs["received"].state = "arrived"
  THEN Merge(Fetched("sent"), Fetched("received"))
  ELSE <<>>

\* C5: whatever the backend answered, searchTx returns exactly the fetched
\* (or merged) transactions whose height h has
\* filter.minHeight <= h <= filter.maxHeight, the bounds as the caller gave
\* them.
C5_ResultWithinGivenFilter ==
  (sOp = "searchTx" /\ sPc = "done" /\ sResult.kind = "ok") =>
    sResult.value =
      SelectSeq(FetchedOrMerged,
                LAMBDA tx : GivenMin <= tx.height /\ tx.height <= GivenMax)

\* C6: whenever a response to a search issued by searchTx or getTx reports
\* more than 100 matching transactions, the call has thrown the pagination
\* error and returned nothing; in the sent-from-or-to path one such response
\* of the two is enough.
C6_MoreThanOnePageThrows ==
  \A slot \in Slots :
    (sReqs[slot].state = "arrived" /\ sReqs[slot].response.total_count > 100) =>
      /\ sPc = "done"
      /\ sResult = PaginationError

\* C6 witness: the sent search fitted one page and returned transactions,
\* the received search reported more than one page, and the call threw.
C6_Witness ==
  /\ sOp = "searchTx"
  /\ sReqs["sent"].state = "arrived"
  /\ sReqs["sent"].response.total_count <= 100
  /\ Len(sReqs["sent"].response.txs) > 0
  /\ sReqs["received"].state = "arrived"
  /\ sReqs["received"].response.total_count > 100
  /\ sResult.kind = "error"

(***************************************************************************)
(* The client instance: getChainId and getCodeDetails.                     *)
(***************************************************************************)
Callers == 1..NumCallers

\* A caller's call: the method, its argument, and for the memoizing methods
\* n, the number of the call in the order the calls were started.
NoCall == [op |-> "none", n |-> 0]

\* A request to the backend: the lcdClient method, and its argument if it
\* has one.
Request(endpoint) == [endpoint |-> endpoint]
RequestFor(endpoint, arg) == [endpoint |-> endpoint, arg |-> arg]

\* A string that an if (!s) takes for absent: undefined or empty.
Falsy(s) == s = Undefined \/ s = ""

\* What lcdClient.nodeInfo() can answer: a network name, an empty or missing
\* network field, or a failed request.
NodeInfoResponses ==
  { Ok([network |-> n]) : n \in {"net-a", "net-b", "", Undefined} } \cup
  { Err("Request failed") }

\* getChainId asking the backend although a chain id is memoized.
NeedsNodeInfo_Always == TRUE

\* getChainId with its test turned around: if (this.chainId).
NeedsNodeInfo_Inverted == ~Falsy(chainId)

\* if (!this.chainId)
NeedsNodeInfo == Falsy(chainId)

\* getChainId memoizing whatever network field the backend sent.
GetChainIdResolved_Unchecked(response, memo) ==
  IF response.kind = "error"
  THEN [chainId |-> memo, ret |-> response]
  ELSE [chainId |-> response.value.network,
        ret |-> Ok(response.value.network)]

\* getChainId from the nodeInfo response on: the new memo and the outcome.
GetChainIdResolved(response, memo) ==
  IF response.kind = "error"
  THEN [chainId |-> memo, ret |-> response]
  ELSE IF Falsy(response.value.network)
  THEN [chainId |-> memo, ret |-> Err("Chain ID must not be empty")]
  ELSE [chainId |-> response.value.network,
        ret |-> Ok(response.value.network)]

\* getChainId up to its await, or to its return when the memo is set.
GetChainIdStart(p) ==
  /\ pc[p] = "idle"
  /\ calls < MaxCalls
  /\ calls' = calls + 1
  /\ call' = [call EXCEPT ![p] = [op |-> "getChainId", n |-> calls + 1]]
  /\ IF NeedsNodeInfo
     THEN /\ nodeInfoCalls' = nodeInfoCalls + 1
          /\ requests' = [requests EXCEPT ![p] = <<Request("nodeInfo")>>]
          /\ pc' = [pc EXCEPT ![p] = "await"]
          /\ resp' = [resp EXCEPT ![p] = NoResult]
          /\ ret' = [ret EXCEPT ![p] = NoResult]
     ELSE /\ ret' = [ret EXCEPT ![p] = Ok(chainId)]
          /\ resp' = [resp EXCEPT ![p] = NoResult]
          /\ requests' = [requests EXCEPT ![p] = <<>>]
          /\ UNCHANGED <<nodeInfoCalls, pc>>
  /\ chainIdOverlap' =
       (chainIdOverlap \/
        \E q \in Callers : pc[q] = "await" /\ call[q].op = "getChainId")
  /\ UNCHANGED <<getCodeCalls, clientVars, firstChainId, firstCodeDetails,
                 observed, searchVars, restVars>>

\* The nodeInfo response arrives and getChainId runs to its end.
GetChainIdResume(p) ==
  /\ pc[p] = "await"
  /\ call[p].op = "getChainId"
  /\ \E response \in NodeInfoResponses :
       LET out == GetChainIdResolved(response, chainId)
       IN  /\ resp' = [resp EXCEPT ![p] = response]
           /\ chainId' = out.chainId
           /\ ret' = [ret EXCEPT ![p] = out.ret]
           /\ firstChainId' =
                IF firstChainId = Undefined /\ out.ret.kind = "ok"
                THEN out.ret.value ELSE firstChainId
  /\ pc' = [pc EXCEPT ![p] = "idle"]
  /\ UNCHANGED <<call, nodeInfoCalls, getCodeCalls, calls, requests,
                 codesCache, anyValidAddress, chainIdOverlap,
                 firstCodeDetails, observed, searchVars, restVars>>

CodeIds == {1, 2}

\* toHex(fromHex(h)): the hex digits in lower case.
HexLower(h) ==
  CASE h = "0A" -> "0a"
    [] h = "0a" -> "0a"
    [] OTHER -> h

\* fromBase64 on the payloads of the model.
fromBase64(b) ==
  CASE b = "AQ==" -> <<1>>
    [] b = "Ag==" -> <<2>>
    [] OTHER -> <<>>

\* What lcdClient.wasm.getCode(codeId) can answer: the code info with its
\* payload (a backend may answer one id differently at different times), or
\* a failed request.
GetCodeResponses(codeId) ==
  { Ok([id |-> codeId, creator |-> "creator", data_hash |-> "0A",
        source |-> "", builder |-> "cosmwasm/rust-optimizer:0.8.0",
        data |-> d]) : d \in {"AQ==", "Ag=="} } \cup
  { Err("Request failed") }

\* s || undefined
OrUndefined(s) == IF Falsy(s) THEN Undefined ELSE s

\* The CodeDetails built from a getCode result.
CodeDetails(getCodeResult) ==
  [id |-> getCodeResult.id,
   creator |-> getCodeResult.creator,
   checksum |-> HexLower(getCodeResult.data_hash),
   source |-> OrUndefined(getCodeResult.source),
   builder |-> OrUndefined(getCodeResult.builder),
   data |-> fromBase64(getCodeResult.data)]

\* A cache that never reports a hit.
CacheHas_Never(cache, codeId) == FALSE

\* Map.get / Map.has / Map.set on codesCache.
CacheHas(cache, codeId) == codeId \in DOMAIN cache
CacheSet(cache, codeId, details) ==
  [k \in DOMAIN cache \cup {codeId} |->
     IF k = codeId THEN details ELSE cache[k]]

\* A lookup that answers with the entry of the lowest cached id, whatever
\* id is asked for.
CacheGet_AnyEntry(cache, codeId) ==
  cache[CHOOSE k \in DOMAIN cache : \A j \in DOMAIN cache : k <= j]

\* const cached = this.codesCache.get(codeId); if (cached) ...
CacheGet(cache, codeId) == cache[codeId]
\* getCodeDetails up to its await, or to its return on a cache hit.
GetCodeDetailsStart(p, codeId) ==
  /\ pc[p] = "idle"
  /\ calls < MaxCalls
  /\ calls' = calls + 1
  /\ call' = [call EXCEPT ![p] = [op |-> "getCodeDetails", n |-> calls + 1,
                                  codeId |-> codeId]]
  /\ IF CacheHas(codesCache, codeId)
     THEN /\ ret' = [ret EXCEPT ![p] = Ok(CacheGet(codesCache, codeId))]
          /\ resp' = [resp EXCEPT ![p] = NoResult]
          /\ requests' = [requests EXCEPT ![p] = <<>>]
          /\ UNCHANGED <<getCodeCalls, pc>>
     ELSE /\ getCodeCalls' = getCodeCalls + 1
          /\ requests' =
               [requests EXCEPT ![p] = <<RequestFor("wasm.getCode", codeId)>>]
          /\ pc' = [pc EXCEPT ![p] = "await"]
          /\ resp' = [resp EXCEPT ![p] = NoResult]
          /\ ret' = [ret EXCEPT ![p] = NoResult]
  /\ UNCHANGED <<nodeInfoCalls, clientVars, historyVars, searchVars, restVars>>

\* The getCode response arrives and getCodeDetails runs to its end.
GetCodeDetailsResume(p) ==
  /\ pc[p] = "await"
  /\ call[p].op = "getCodeDetails"
  /\ \E response \in GetCodeResponses(call[p].codeId) :
       /\ resp' = [resp EXCEPT ![p] = response]
       /\ IF response.kind = "error"
          THEN /\ ret' = [ret EXCEPT ![p] = response]
               /\ UNCHANGED <<codesCache, firstCodeDetails>>
          ELSE LET codeDetails == CodeDetails(response.value)
               IN  /\ codesCache' =
                        CacheSet(codesCache, call[p].codeId, codeDetails)
                   /\ ret' = [ret EXCEPT ![p] = Ok(codeDetails)]
                   /\ firstCodeDetails' =
                        IF call[p].codeId \in DOMAIN firstCodeDetails
                        THEN firstCodeDetails
                        ELSE [k \in DOMAIN firstCodeDetails
                                     \cup {call[p].codeId} |->
                                IF k = call[p].codeId THEN codeDetails
                                ELSE firstCodeDetails[k]]
  /\ pc' = [pc EXCEPT ![p] = "idle"]
  /\ UNCHANGED <<call, nodeInfoCalls, getCodeCalls, calls, requests, chainId,
                 anyValidAddress, firstChainId, chainIdOverlap, observed,
                 searchVars, restVars>>

(***************************************************************************)
(* The client instance: getAccount, getSequence, getHeight and getCodes.   *)
(***************************************************************************)
\* The state of the instance and of the callers that the operations below
\* leave alone.
memoVars ==
  <<nodeInfoCalls, getCodeCalls, chainId, codesCache, firstChainId,
    chainIdOverlap, firstCodeDetails>>

\* A promise resolved with undefined, and one resolved with null.
ResolvedUndefined == [kind |-> "undefined"]
ResolvedNull == [kind |-> "null"]

\* A WasmResponse: { result }, { result: null } or the backend-declared
\* { error }.
WasmResult(r) == [result |-> r]
WasmNull == [null |-> TRUE]
WasmError(e) == [error |-> e]

\* isWasmError: resp.error !== undefined
isWasmError(response) == "error" \in DOMAIN response

\* unwrapWasmResponse: throws the declared error, else gives the result.
unwrapWasmResponse(response) ==
  IF isWasmError(response) THEN Err(response.error)
  ELSE IF "null" \in DOMAIN response THEN ResolvedNull
  ELSE Ok(response.result)

\* The addresses callers ask about.
Addresses == {"addr1", "addr2"}

\* uint64ToNumber on the decimal strings of the model: the number, or the
\* error for a value outside the safe integer range.
uint64ToNumber(input) ==
  CASE input = "0" -> Ok(0)
    [] input = "2" -> Ok(2)
    [] input = "7" -> Ok(7)
    [] OTHER -> Err("Input not in uint53 range")

\* parseInt(s, 10) on the decimal strings of the model.
parseInt(s) ==
  CASE s = "5" -> 5
    [] s = "6" -> 6

\* What GET /auth/accounts/{address} can answer: the account of the address,
\* the empty account the backend reports for an address it does not know,
\* or a failed request. An account number may exceed the safe integers.
AccountResponses(address) ==
  { Ok([address |-> address, coins |-> <<>>, public_key |-> Undefined,
        account_number |-> a, sequence |-> "2"]) :
      a \in {"7", "18446744073709551615"} } \cup
  { Ok([address |-> "", coins |-> <<>>, public_key |-> Undefined,
        account_number |-> "0", sequence |-> "0"]),
    Err("Request failed") }

\* getAccount without the test for the empty address.
GetAccountResolved_NoSentinel(response, hint) ==
  IF response.kind = "error"
  THEN [anyValidAddress |-> hint, ret |-> response]
  ELSE LET value == response.value
           accountNumber == uint64ToNumber(value.account_number)
           sequence == uint64ToNumber(value.sequence)
       IN  IF accountNumber.kind = "error"
           THEN [anyValidAddress |-> value.address, ret |-> accountNumber]
           ELSE IF sequence.kind = "error"
           THEN [anyValidAddress |-> value.address, ret |-> sequence]
           ELSE [anyValidAddress |-> value.address,
                 ret |-> Ok([address |-> value.address,
                             balance |-> value.coins,
                             pubkey |-> OrUndefined(value.public_key),
                             accountNumber |-> accountNumber.value,
                             sequence |-> sequence.value])]

\* getAccount dropping the hint when the account turns out to be empty.
GetAccountResolved_HintCleared(response, hint) ==
  IF response.kind = "ok" /\ response.value.address = ""
  THEN [anyValidAddress |-> Undefined, ret |-> ResolvedUndefined]
  ELSE GetAccountResolved_NoSentinel(response, hint)

\* getAccount from the response on: the new hint and the outcome. The hint
\* is assigned before the account is built, so it is set even when a
\* conversion throws.
GetAccountResolved(response, hint) ==
  IF response.kind = "error"
  THEN [anyValidAddress |-> hint, ret |-> response]
  ELSE LET value == response.value
           accountNumber == uint64ToNumber(value.account_number)
           sequence == uint64ToNumber(value.sequence)
       IN  IF value.address = ""
           THEN [anyValidAddress |-> hint, ret |-> ResolvedUndefined]
           ELSE IF accountNumber.kind = "error"
           THEN [anyValidAddress |-> value.address, ret |-> accountNumber]
           ELSE IF sequence.kind = "error"
           THEN [anyValidAddress |-> value.address, ret |-> sequence]
           ELSE [anyValidAddress |-> value.address,
                 ret |-> Ok([address |-> value.address,
                             balance |-> value.coins,
                             pubkey |-> OrUndefined(value.public_key),
                             accountNumber |-> accountNumber.value,
                             sequence |-> sequence.value])]

AccountNotFound ==
  Err("Account does not exist on chain. Send some tokens there before trying to query sequence.")

\* getSequence from the outcome of its getAccount on.
GetSequenceResolved(account) ==
  IF account.kind = "error" THEN account
  ELSE IF account.kind = "undefined" THEN AccountNotFound
  ELSE Ok([accountNumber |-> account.value.accountNumber,
           sequence |-> account.value.sequence])

\* The addresses a response of GET /auth/accounts shows to exist.
ObservedInAccount(response) ==
  IF response.kind = "ok" /\ response.value.address # ""
  THEN {response.value.address} ELSE {}

\* getAccount up to its await.
GetAccountStart(p, address) ==
  /\ pc[p] = "idle"
  /\ calls < MaxCalls
  /\ calls' = calls + 1
  /\ call' = [call EXCEPT ![p] = [op |-> "getAccount", address |-> address]]
  /\ requests' =
       [requests EXCEPT ![p] = <<RequestFor("get /auth/accounts", address)>>]
  /\ pc' = [pc EXCEPT ![p] = "await"]
  /\ resp' = [resp EXCEPT ![p] = NoResult]
  /\ ret' = [ret EXCEPT ![p] = NoResult]
  /\ UNCHANGED <<anyValidAddress, observed, memoVars, searchVars, restVars>>

\* The account response arrives and getAccount runs to its end.
GetAccountResume(p) ==
  /\ pc[p] = "await"
  /\ call[p].op = "getAccount"
  /\ \E response \in AccountResponses(call[p].address) :
       LET out == GetAccountResolved(response, anyValidAddress)
       IN  /\ resp' = [resp EXCEPT ![p] = response]
           /\ anyValidAddress' = out.anyValidAddress
           /\ ret' = [ret EXCEPT ![p] = out.ret]
           /\ observed' = observed \cup ObservedInAccount(response)
  /\ pc' = [pc EXCEPT ![p] = "idle"]
  /\ UNCHANGED <<call, calls, requests, memoVars, searchVars, restVars>>

\* getSequence up to the await inside its getAccount.
GetSequenceStart(p, address) ==
  /\ pc[p] = "idle"
  /\ calls < MaxCalls
  /\ calls' = calls + 1
  /\ call' = [call EXCEPT ![p] = [op |-> "getSequence", address |-> address]]
  /\ requests' =
       [requests EXCEPT ![p] = <<RequestFor("get /auth/accounts", address)>>]
  /\ pc' = [pc EXCEPT ![p] = "await"]
  /\ resp' = [resp EXCEPT ![p] = NoResult]
  /\ ret' = [ret EXCEPT ![p] = NoResult]
  /\ UNCHANGED <<anyValidAddress, observed, memoVars, searchVars, restVars>>

\* The account response arrives; getAccount and then getSequence run to
\* their ends.
GetSequenceResume(p) ==
  /\ pc[p] = "await"
  /\ call[p].op = "getSequence"
  /\ \E response \in AccountResponses(call[p].address) :
       LET out == GetAccountResolved(response, anyValidAddress)
       IN  /\ resp' = [resp EXCEPT ![p] = response]
           /\ anyValidAddress' = out.anyValidAddress
           /\ ret' = [ret EXCEPT ![p] = GetSequenceResolved(out.ret)]
           /\ observed' = observed \cup ObservedInAccount(response)
  /\ pc' = [pc EXCEPT ![p] = "idle"]
  /\ UNCHANGED <<call, calls, requests, memoVars, searchVars, restVars>>

\* getHeight always taking the latest block.
HeightRequest_AlwaysLatestBlock(hint) == Request("blocksLatest")

\* getHeight's choice of request: if (this.anyValidAddress) the account of
\* that address, else the latest block.
HeightRequest(hint) ==
  IF ~Falsy(hint) THEN RequestFor("auth.account", hint)
  ELSE Request("blocksLatest")

\* What auth.account and blocksLatest can answer: the height at the time of
\* the request, or a failed request.
AuthAccountResponses == { Ok([height |-> "5"]), Err("Request failed") }
BlocksLatestResponses ==
  { Ok([block |-> [header |-> [height |-> "6"]]]), Err("Request failed") }

\* getHeight up to its await.
GetHeightStart(p) ==
  /\ pc[p] = "idle"
  /\ calls < MaxCalls
  /\ calls' = calls + 1
  /\ call' = [call EXCEPT ![p] = [op |-> "getHeight"]]
  /\ requests' = [requests EXCEPT ![p] = <<HeightRequest(anyValidAddress)>>]
  /\ pc' = [pc EXCEPT ![p] = "await"]
  /\ resp' = [resp EXCEPT ![p] = NoResult]
  /\ ret' = [ret EXCEPT ![p] = NoResult]
  /\ UNCHANGED <<anyValidAddress, observed, memoVars, searchVars, restVars>>

\* The response arrives and getHeight returns the parsed height.
GetHeightResume(p) ==
  /\ pc[p] = "await"
  /\ call[p].op = "getHeight"
  /\ \E response \in IF requests[p][1].endpoint = "auth.account"
                     THEN AuthAccountResponses ELSE BlocksLatestResponses :
       /\ resp' = [resp EXCEPT ![p] = response]
       /\ ret' = [ret EXCEPT ![p] =
            IF response.kind = "error" THEN response
            ELSE IF requests[p][1].endpoint = "auth.account"
            THEN Ok(parseInt(response.value.height))
            ELSE Ok(parseInt(response.value.block.header.height))]
  /\ pc' = [pc EXCEPT ![p] = "idle"]
  /\ UNCHANGED <<call, calls, requests, anyValidAddress, observed, memoVars,
                 searchVars, restVars>>

\* The code infos of the chain, as GET /wasm/code lists them.
CodeInfos ==
  { [id |-> 1, creator |-> "creator", data_hash |-> "0A", source |-> "",
     builder |-> "cosmwasm/rust-optimizer:0.8.0"],
    [id |-> 2, creator |-> "addr2", data_hash |-> "0A", source |-> "",
     builder |-> "cosmwasm/rust-optimizer:0.8.0"] }

\* What GET /wasm/code can answer: a list of code infos (no code yet, or
\* some), a backend-declared error, or a failed request.
ListCodeInfoResponses ==
  { Ok(WasmResult(l)) : l \in { s \in SeqsNoRepeat(CodeInfos, 2) : NoRepeat(s) } }
  \cup { Ok(WasmError("internal error")), Err("Request failed") }

\* wasm.listCodeInfo from the response on.
ListCodeInfoResult(response) ==
  IF response.kind = "error" THEN response
  ELSE unwrapWasmResponse(response.value)

\* The Code built from one entry of the list.
Code(entry) ==
  [id |-> entry.id,
   creator |-> entry.creator,
   checksum |-> HexLower(entry.data_hash),
   source |-> OrUndefined(entry.source),
   builder |-> OrUndefined(entry.builder)]

\* The hint after result.map(...): each entry assigns its creator, so the
\* last entry's creator stays; an empty list assigns nothing.
HintAfterCodes(result, hint) ==
  IF Len(result) = 0 THEN hint ELSE result[Len(result)].creator

\* getCodes up to its await.
GetCodesStart(p) ==
  /\ pc[p] = "idle"
  /\ calls < MaxCalls
  /\ calls' = calls + 1
  /\ call' = [call EXCEPT ![p] = [op |-> "getCodes"]]
  /\ requests' = [requests EXCEPT ![p] = <<Request("wasm.listCodeInfo")>>]
  /\ pc' = [pc EXCEPT ![p] = "await"]
  /\ resp' = [resp EXCEPT ![p] = NoResult]
  /\ ret' = [ret EXCEPT ![p] = NoResult]
  /\ UNCHANGED <<anyValidAddress, observed, memoVars, searchVars, restVars>>

\* The list arrives and getCodes maps it.
GetCodesResume(p) ==
  /\ pc[p] = "await"
  /\ call[p].op = "getCodes"
  /\ \E response \in ListCodeInfoResponses :
       LET result == ListCodeInfoResult(response)
       IN  /\ resp' = [resp EXCEPT ![p] = response]
           /\ IF result.kind = "error"
              THEN /\ ret' = [ret EXCEPT ![p] = result]
                   /\ UNCHANGED <<anyValidAddress, observed>>
              ELSE /\ ret' = [ret EXCEPT ![p] =
                        Ok([i \in 1..Len(result.value) |->
                              Code(result.value[i])])]
                   /\ anyValidAddress' =
                        HintAfterCodes(result.value, anyValidAddress)
                   /\ observed' = observed \cup
                        { result.value[i].creator : i \in 1..Len(result.value) }
  /\ pc' = [pc EXCEPT ![p] = "idle"]
  /\ UNCHANGED <<call, calls, requests, memoVars, searchVars, restVars>>

(***************************************************************************)
(* broadcastTx.                                                            *)
(***************************************************************************)
\* The characters transaction hashes are made of in the model: an upper-case
\* hex digit, an upper-case hex letter, a lower-case hex letter and an
\* upper-case letter that is no hex digit. A hash is a sequence of them.
HashChars == {"0", "F", "a", "G"}

RECURSIVE SeqsUpTo(_, _)
\* All sequences of at most n elements of S.
SeqsUpTo(S, n) ==
  IF n = 0 THEN { <<>> }
  ELSE LET shorter == SeqsUpTo(S, n - 1)
       IN  shorter \cup
           { Append(s, x) : s \in { t \in shorter : Len(t) = n - 1 },
                            x \in S }

TxHashes == SeqsUpTo(HashChars, MaxHashLen)

\* [0-9A-F]
IsUpperHexDigit(c) ==
  c \in {"0", "1", "2", "3", "4", "5", "6", "7", "8", "9",
         "A", "B", "C", "D", "E", "F"}

\* The hash test without the pairing: /^[0-9A-F]+$/.
MatchesTxHash_AnyLength(txhash) ==
  /\ Len(txhash) > 0
  /\ \A i \in 1..Len(txhash) : IsUpperHexDigit(txhash[i])

\* txhash.match(/^([0-9A-F][0-9A-F])+$/): one or more pairs of upper-case
\* hex digits and nothing else.
MatchesTxHash(txhash) ==
  /\ Len(txhash) > 0
  /\ Len(txhash) % 2 = 0
  /\ \A i \in 1..Len(txhash) : IsUpperHexDigit(txhash[i])

\* Uint53.fromString(s).toNumber() on the heights of the model.
Uint53FromString(s) ==
  CASE s = "0" -> 0
    [] s = "5" -> 5

\* fromHex on the payloads of the model.
fromHex(h) ==
  CASE h = "0A" -> <<10>>
    [] OTHER -> <<>>

\* What lcdClient.broadcastTx can answer: txhash and height always, and
\* each of code, raw_log, logs and data present or left out; or a failed
\* request.
BroadcastTxResponses ==
  UNION {
    { [f \in {"txhash", "height"} \cup D |->
         CASE f = "txhash" -> h
           [] f = "height" -> "5"
           [] f = "code" -> c
           [] f = "raw_log" -> "out of gas"
           [] f = "logs" -> <<"log">>
           [] f = "data" -> "0A"] :
        h \in TxHashes, c \in IF "code" \in D THEN {0, 5} ELSE {0} } :
      D \in SUBSET {"code", "raw_log", "logs", "data"} }

IllFormattedTxHash ==
  Err("Received ill-formatted txhash. Must be non-empty upper-case hex")

\* result.raw_log || ''
RawLogOf(result) ==
  IF "raw_log" \in DOMAIN result THEN result.raw_log ELSE ""

\* result.logs ?? []
LogsOf(result) == IF "logs" \in DOMAIN result THEN result.logs ELSE <<>>

\* The two result shapes. A property whose value is undefined (data, when
\* the response has none) is left out of the record.
BroadcastTxFailure(result) ==
  [height |-> Uint53FromString(result.height),
   transactionHash |-> result.txhash,
   code |-> result.code,
   rawLog |-> RawLogOf(result)]
BroadcastTxSuccess(result) ==
  IF "data" \in DOMAIN result /\ result.data # ""
  THEN [logs |-> LogsOf(result), rawLog |-> RawLogOf(result),
        transactionHash |-> result.txhash, data |-> fromHex(result.data)]
  ELSE [logs |-> LogsOf(result), rawLog |-> RawLogOf(result),
        transactionHash |-> result.txhash]

\* The shape chosen by the truth of the code: result.code ? ... : ...
BroadcastTxShape_CodeTruthy(result) ==
  IF "code" \in DOMAIN result /\ result.code # 0
  THEN BroadcastTxFailure(result)
  ELSE BroadcastTxSuccess(result)

\* result.code !== undefined ? ... : ...
BroadcastTxShape(result) ==
  IF "code" \in DOMAIN result
  THEN BroadcastTxFailure(result)
  ELSE BroadcastTxSuccess(result)

\* broadcastTx from the response on.
BroadcastTxResolved(response) ==
  IF response.kind = "error" THEN response
  ELSE IF ~MatchesTxHash(response.value.txhash) THEN IllFormattedTxHash
  ELSE Ok(BroadcastTxShape(response.value))

\* broadcastTx submitting the transaction twice.
BroadcastTxStart_SentTwice(p) ==
  /\ pc[p] = "idle"
  /\ calls < MaxCalls
  /\ calls' = calls + 1
  /\ call' = [call EXCEPT ![p] = [op |-> "broadcastTx"]]
  /\ requests' = [requests EXCEPT ![p] = <<Request("broadcastTx"),
                                           Request("broadcastTx")>>]
  /\ pc' = [pc EXCEPT ![p] = "await"]
  /\ resp' = [resp EXCEPT ![p] = NoResult]
  /\ ret' = [ret EXCEPT ![p] = NoResult]
  /\ UNCHANGED <<anyValidAddress, observed, memoVars, searchVars, restVars>>

\* broadcastTx up to its await.
BroadcastTxStart(p) ==
  /\ pc[p] = "idle"
  /\ calls < MaxCalls
  /\ calls' = calls + 1
  /\ call' = [call EXCEPT ![p] = [op |-> "broadcastTx"]]
  /\ requests' = [requests EXCEPT ![p] = <<Request("broadcastTx")>>]
  /\ pc' = [pc EXCEPT ![p] = "await"]
  /\ resp' = [resp EXCEPT ![p] = NoResult]
  /\ ret' = [ret EXCEPT ![p] = NoResult]
  /\ UNCHANGED <<anyValidAddress, observed, memoVars, searchVars, restVars>>

\* The response arrives and broadcastTx runs to its end.
BroadcastTxResume(p) ==
  /\ pc[p] = "await"
  /\ call[p].op = "broadcastTx"
  /\ \E response \in { Ok(r) : r \in BroadcastTxResponses } \cup
                     { Err("Request failed") } :
       /\ resp' = [resp EXCEPT ![p] = response]
       /\ ret' = [ret EXCEPT ![p] = BroadcastTxResolved(response)]
  /\ pc' = [pc EXCEPT ![p] = "idle"]
  /\ UNCHANGED <<call, calls, requests, anyValidAddress, observed, memoVars,
                 searchVars, restVars>>

(***************************************************************************)
(* getContract, getContractCodeHistory, queryContractRaw and               *)
(* queryContractSmart.                                                     *)
(***************************************************************************)
\* `No contract found at address "${address}"` and
\* `No contract history found for address "${address}"`: the text, and the
\* address it ends with.
NoContractFound(address) ==
  [kind |-> "error", message |-> "No contract found at address",
   address |-> address]
NoContractHistoryFound(address) ==
  [kind |-> "error", message |-> "No contract history found for address",
   address |-> address]

\* What GET /wasm/contract/{address} can answer: the contract info, null
\* for an address without a contract, a backend-declared error, or a failed
\* request.
GetContractInfoResponses(address) ==
  { Ok(WasmResult([address |-> address, code_id |-> 1, creator |-> "creator",
                   label |-> "hackatom"])),
    Ok(WasmNull), Ok(WasmError("internal error")), Err("Request failed") }

\* wasm.getContractInfo, wasm.getContractCodeHistory from the response on.
Unwrapped(response) ==
  IF response.kind = "error" THEN response
  ELSE unwrapWasmResponse(response.value)

\* getContract returning what the backend sent, null included.
GetContractResolved_NullReturned(result, address) ==
  IF result.kind \in {"error", "null"} THEN result
  ELSE Ok([address |-> result.value.address,
           codeId |-> result.value.code_id,
           creator |-> result.value.creator,
           label |-> result.value.label])

\* getContract from the result of wasm.getContractInfo on. The contract has
\* no admin, so admin is undefined and left out.
GetContractResolved(result, address) ==
  IF result.kind = "error" THEN result
  ELSE IF result.kind = "null" THEN NoContractFound(address)
  ELSE Ok([address |-> result.value.address,
           codeId |-> result.value.code_id,
           creator |-> result.value.creator,
           label |-> result.value.label])

\* getContract up to its await.
GetContractStart(p, address) ==
  /\ pc[p] = "idle"
  /\ calls < MaxCalls
  /\ calls' = calls + 1
  /\ call' = [call EXCEPT ![p] = [op |-> "getContract", address |-> address]]
  /\ requests' =
       [requests EXCEPT ![p] = <<RequestFor("wasm.getContractInfo", address)>>]
  /\ pc' = [pc EXCEPT ![p] = "await"]
  /\ resp' = [resp EXCEPT ![p] = NoResult]
  /\ ret' = [ret EXCEPT ![p] = NoResult]
  /\ UNCHANGED <<anyValidAddress, observed, memoVars, searchVars, restVars>>

\* The contract info arrives and getContract runs to its end.
GetContractResume(p) ==
  /\ pc[p] = "await"
  /\ call[p].op = "getContract"
  /\ \E response \in GetContractInfoResponses(call[p].address) :
       /\ resp' = [resp EXCEPT ![p] = response]
       /\ ret' = [ret EXCEPT ![p] =
            GetContractResolved(Unwrapped(response), call[p].address)]
  /\ pc' = [pc EXCEPT ![p] = "idle"]
  /\ UNCHANGED <<call, calls, requests, anyValidAddress, observed, memoVars,
                 searchVars, restVars>>

\* What GET /wasm/contract/{address}/history can answer: a list of entries,
\* null for an address without a contract, a backend-declared error, or a
\* failed request.
GetContractCodeHistoryResponses ==
  { Ok(WasmResult(<<>>)),
    Ok(WasmResult(<<[operation |-> "Init", code_id |-> 1, msg |-> "{}"]>>)),
    Ok(WasmNull), Ok(WasmError("internal error")), Err("Request failed") }

\* getContractCodeHistory recovering from a failed request with an empty
\* history.
GetContractCodeHistoryResolved_ErrorAsEmpty(result, address) ==
  IF result.kind = "error" THEN Ok(<<>>)
  ELSE IF result.kind = "null" THEN NoContractHistoryFound(address)
  ELSE Ok([i \in 1..Len(result.value) |->
             [operation |-> result.value[i].operation,
              codeId |-> result.value[i].code_id,
              msg |-> result.value[i].msg]])

\* getContractCodeHistory from the result of wasm.getContractCodeHistory on.
GetContractCodeHistoryResolved(result, address) ==
  IF result.kind = "error" THEN result
  ELSE IF result.kind = "null" THEN NoContractHistoryFound(address)
  ELSE Ok([i \in 1..Len(result.value) |->
             [operation |-> result.value[i].operation,
              codeId |-> result.value[i].code_id,
              msg |-> result.value[i].msg]])

\* getContractCodeHistory up to its await.
GetContractCodeHistoryStart(p, address) ==
  /\ pc[p] = "idle"
  /\ calls < MaxCalls
  /\ calls' = calls + 1
  /\ call' = [call EXCEPT ![p] = [op |-> "getContractCodeHistory",
                                  address |-> address]]
  /\ requests' =
       [requests EXCEPT ![p] =
          <<RequestFor("wasm.getContractCodeHistory", address)>>]
  /\ pc' = [pc EXCEPT ![p] = "await"]
  /\ resp' = [resp EXCEPT ![p] = NoResult]
  /\ ret' = [ret EXCEPT ![p] = NoResult]
  /\ UNCHANGED <<anyValidAddress, observed, memoVars, searchVars, restVars>>

\* The history arrives and getContractCodeHistory runs to its end.
GetContractCodeHistoryResume(p) ==
  /\ pc[p] = "await"
  /\ call[p].op = "getContractCodeHistory"
  /\ \E response \in GetContractCodeHistoryResponses :
       /\ resp' = [resp EXCEPT ![p] = response]
       /\ ret' = [ret EXCEPT ![p] =
            GetContractCodeHistoryResolved(Unwrapped(response),
                                           call[p].address)]
  /\ pc' = [pc EXCEPT ![p] = "idle"]
  /\ UNCHANGED <<call, calls, requests, anyValidAddress, observed, memoVars,
                 searchVars, restVars>>

\* What GET /wasm/contract/{address}/raw/{key} can answer: the data as an
\* array of models (CosmWasm 0.10) or as a string (CosmWasm 0.11), null, a
\* backend-declared error, or a failed request.
QueryContractRawResponses ==
  { Ok(WasmResult([array |-> <<>>])),
    Ok(WasmResult([array |-> <<[key |-> "00", val |-> "AQ=="]>>])),
    Ok(WasmResult([array |-> <<[key |-> "00", val |-> "AQ=="],
                               [key |-> "01", val |-> "Ag=="]>>])),
    Ok(WasmResult([string |-> ""])),
    Ok(WasmResult([string |-> "Ag=="])),
    Ok(WasmNull), Ok(WasmError("internal error")), Err("Request failed") }

\* wasm.queryContractRaw decoding the string form without the test for an
\* empty string.
WasmQueryContractRaw_EmptyStringDecoded(response) ==
  LET data == Unwrapped(response)
  IN  IF data.kind = "error" THEN data
      ELSE IF data.kind = "null" THEN ResolvedNull
      ELSE IF "array" \in DOMAIN data.value
      THEN IF Len(data.value.array) = 0 THEN ResolvedNull
           ELSE Ok(fromBase64(data.value.array[1].val))
      ELSE Ok(fromBase64(data.value.string))

\* wasm.queryContractRaw from the response on.
WasmQueryContractRaw(response) ==
  LET data == Unwrapped(response)
  IN  IF data.kind = "error" THEN data
      ELSE IF data.kind = "null" THEN ResolvedNull
      ELSE IF "array" \in DOMAIN data.value
      THEN IF Len(data.value.array) = 0 THEN ResolvedNull
           ELSE Ok(fromBase64(data.value.array[1].val))
      ELSE IF data.value.string = "" THEN ResolvedNull
           ELSE Ok(fromBase64(data.value.string))

\* queryContractRaw going on to the raw lookup whatever getContract did.
RawLookupFollows_Always(contract) == TRUE

\* queryContractRaw after await this.getContract(address): the raw lookup
\* follows unless getContract threw.
RawLookupFollows(contract) == contract.kind = "ok"

\* queryContractRaw up to the await inside its getContract.
QueryContractRawStart(p, address) ==
  /\ pc[p] = "idle"
  /\ calls < MaxCalls
  /\ calls' = calls + 1
  /\ call' = [call EXCEPT ![p] = [op |-> "queryContractRaw",
                                  address |-> address]]
  /\ requests' =
       [requests EXCEPT ![p] = <<RequestFor("wasm.getContractInfo", address)>>]
  /\ pc' = [pc EXCEPT ![p] = "await"]
  /\ resp' = [resp EXCEPT ![p] = NoResult]
  /\ ret' = [ret EXCEPT ![p] = NoResult]
  /\ UNCHANGED <<anyValidAddress, observed, memoVars, searchVars, restVars>>

\* The contract info arrives: getContract runs to its end, and
\* queryContractRaw either fails with it or sends the raw lookup.
QueryContractRawExists(p) ==
  /\ pc[p] = "await"
  /\ call[p].op = "queryContractRaw"
  /\ \E response \in GetContractInfoResponses(call[p].address) :
       LET contract ==
             GetContractResolved(Unwrapped(response), call[p].address)
       IN  /\ resp' = [resp EXCEPT ![p] = response]
           /\ IF RawLookupFollows(contract)
              THEN /\ requests' =
                        [requests EXCEPT ![p] =
                           Append(@, RequestFor("wasm.queryContractRaw",
                                                call[p].address))]
                   /\ pc' = [pc EXCEPT ![p] = "awaitRaw"]
                   /\ UNCHANGED ret
              ELSE /\ ret' = [ret EXCEPT ![p] = contract]
                   /\ pc' = [pc EXCEPT ![p] = "idle"]
                   /\ UNCHANGED requests
  /\ UNCHANGED <<call, calls, anyValidAddress, observed, memoVars, searchVars, restVars>>

\* The raw data arrives and queryContractRaw returns what
\* wasm.queryContractRaw makes of it.
QueryContractRawResume(p) ==
  /\ pc[p] = "awaitRaw"
  /\ call[p].op = "queryContractRaw"
  /\ \E response \in QueryContractRawResponses :
       /\ resp' = [resp EXCEPT ![p] = response]
       /\ ret' = [ret EXCEPT ![p] = WasmQueryContractRaw(response)]
  /\ pc' = [pc EXCEPT ![p] = "idle"]
  /\ UNCHANGED <<call, calls, requests, anyValidAddress, observed, memoVars,
                 searchVars, restVars>>

\* The LCD extension's wasm.queryContractRaw, called directly, up to its
\* await: it sends the raw lookup without asking for the contract.
WasmQueryContractRawStart(p, address) ==
  /\ pc[p] = "idle"
  /\ calls < MaxCalls
  /\ calls' = calls + 1
  /\ call' = [call EXCEPT ![p] = [op |-> "wasm.queryContractRaw",
                                  address |-> address]]
  /\ requests' =
       [requests EXCEPT ![p] = <<RequestFor("wasm.queryContractRaw", address)>>]
  /\ pc' = [pc EXCEPT ![p] = "await"]
  /\ resp' = [resp EXCEPT ![p] = NoResult]
  /\ ret' = [ret EXCEPT ![p] = NoResult]
  /\ UNCHANGED <<anyValidAddress, observed, memoVars, searchVars, restVars>>

\* The raw data arrives and wasm.queryContractRaw returns.
WasmQueryContractRawResume(p) ==
  /\ pc[p] = "await"
  /\ call[p].op = "wasm.queryContractRaw"
  /\ \E response \in QueryContractRawResponses :
       /\ resp' = [resp EXCEPT ![p] = response]
       /\ ret' = [ret EXCEPT ![p] = WasmQueryContractRaw(response)]
  /\ pc' = [pc EXCEPT ![p] = "idle"]
  /\ UNCHANGED <<call, calls, requests, anyValidAddress, observed, memoVars,
                 searchVars, restVars>>

\* Something thrown that is no Error.
Thrown(v) == [kind |-> "thrown", value |-> v]

\* JSON.parse(fromUtf8(fromBase64(smart))) on the payloads of the model: the
\* document, or the SyntaxError for a payload that is no JSON.
ParseSmart(smart) ==
  CASE smart = "eyJ2IjoxfQ==" -> Ok([v |-> 1])
    [] OTHER -> Err("Unexpected token in JSON")

\* The error messages a smart query is answered with in the model.
SmartErrors ==
  { "not found: contract", "not found: contract: unknown address",
    "not found: code", "query wasm contract failed: not found: contract",
    "parsing message failed" }

\* What GET /wasm/contract/{address}/smart/{query} can answer: a document,
\* a payload that is no JSON, a backend-declared error, or a failed request;
\* and an lcdClient that throws a string.
QueryContractSmartResponses ==
  { Ok(WasmResult([smart |-> s])) : s \in {"eyJ2IjoxfQ==", "AQ=="} } \cup
  { Ok(WasmError(e)) : e \in SmartErrors } \cup
  { Err("Request failed"), Thrown("not found: contract") }

\* wasm.queryContractSmart from the response on.
WasmQueryContractSmart(response) ==
  IF response.kind \in {"error", "thrown"} THEN response
  ELSE LET result == unwrapWasmResponse(response.value)
       IN  IF result.kind = "error" THEN result
           ELSE ParseSmart(result.value.smart)

\* The test with includes for startsWith.
IsNotFoundContract_Includes(message) ==
  message \in { "not found: contract", "not found: contract: unknown address",
                "query wasm contract failed: not found: contract" }

\* error.message.startsWith('not found: contract') on the messages of the
\* model.
IsNotFoundContract(message) ==
  message \in { "not found: contract", "not found: contract: unknown address" }

\* queryContractSmart from the outcome of wasm.queryContractSmart on: the
\* try / catch.
QueryContractSmartResolved(outcome, address) ==
  IF outcome.kind = "error"
  THEN IF IsNotFoundContract(outcome.message)
       THEN NoContractFound(address)
       ELSE outcome
  ELSE outcome

\* queryContractSmart up to its await.
QueryContractSmartStart(p, address) ==
  /\ pc[p] = "idle"
  /\ calls < MaxCalls
  /\ calls' = calls + 1
  /\ call' = [call EXCEPT ![p] = [op |-> "queryContractSmart",
                                  address |-> address]]
  /\ requests' =
       [requests EXCEPT ![p] =
          <<RequestFor("wasm.queryContractSmart", address)>>]
  /\ pc' = [pc EXCEPT ![p] = "await"]
  /\ resp' = [resp EXCEPT ![p] = NoResult]
  /\ ret' = [ret EXCEPT ![p] = NoResult]
  /\ UNCHANGED <<anyValidAddress, observed, memoVars, searchVars, restVars>>

\* The answer arrives and queryContractSmart returns or throws.
QueryContractSmartResume(p) ==
  /\ pc[p] = "await"
  /\ call[p].op = "queryContractSmart"
  /\ \E response \in QueryContractSmartResponses :
       /\ resp' = [resp EXCEPT ![p] = response]
       /\ ret' = [ret EXCEPT ![p] =
            QueryContractSmartResolved(WasmQueryContractSmart(response),
                                       call[p].address)]
  /\ pc' = [pc EXCEPT ![p] = "idle"]
  /\ UNCHANGED <<call, calls, requests, anyValidAddress, observed, memoVars,
                 searchVars, restVars>>

(***************************************************************************)
(* getIdentifier, getBlock and getContracts.                               *)
(***************************************************************************)
\* What encodeTx can answer: the encoded transaction, or a failed request.
EncodeTxResponses == { Ok([tx |-> "AQ=="]), Err("Request failed") }

\* toHex(sha256(bytes)).toUpperCase() for the encoded transactions above.
Sha256UpperHex(bytes) ==
  CASE bytes = <<1>> ->
         "4BF5122F344554C53BDE2EBB8CD2B7E3D1600AD631C385A5D7CCE23C7785459A"
    [] bytes = <<2>> ->
         "DBC1B4C900FFE48D575B5DA5C638040125F65DB0FE3E24494B76EA986457D986"

\* getIdentifier up to its await.
GetIdentifierStart(p) ==
  /\ pc[p] = "idle"
  /\ calls < MaxCalls
  /\ calls' = calls + 1
  /\ call' = [call EXCEPT ![p] = [op |-> "getIdentifier"]]
  /\ requests' = [requests EXCEPT ![p] = <<Request("encodeTx")>>]
  /\ pc' = [pc EXCEPT ![p] = "await"]
  /\ resp' = [resp EXCEPT ![p] = NoResult]
  /\ ret' = [ret EXCEPT ![p] = NoResult]
  /\ UNCHANGED <<anyValidAddress, observed, memoVars, searchVars, restVars>>

\* The encoded transaction arrives and getIdentifier returns its hash.
GetIdentifierResume(p) ==
  /\ pc[p] = "await"
  /\ call[p].op = "getIdentifier"
  /\ \E response \in EncodeTxResponses :
       /\ resp' = [resp EXCEPT ![p] = response]
       /\ ret' = [ret EXCEPT ![p] =
            IF response.kind = "error" THEN response
            ELSE Ok(Sha256UpperHex(fromBase64(response.value.tx)))]
  /\ pc' = [pc EXCEPT ![p] = "idle"]
  /\ UNCHANGED <<call, calls, requests, anyValidAddress, observed, memoVars,
                 searchVars, restVars>>

\* The height argument of getBlock: a height, or left out.
BlockArgs == { [height |-> 6], EmptyRecord }

\* What blocks(height) and blocksLatest can answer: a block with
\* transactions, one whose txs field is null, or a failed request.
BlockResponses ==
  { Ok([block_id |-> [hash |-> "B6"],
        block |-> [header |-> [version |-> "10", time |-> "t6",
                               height |-> "6", chain_id |-> "testing"],
                   data |-> [txs |-> Array(<<"AQ==">>)]]]),
    Ok([block_id |-> [hash |-> "B6"],
        block |-> [header |-> [version |-> "10", time |-> "t6",
                               height |-> "6", chain_id |-> "testing"],
                   data |-> [txs |-> Null]]]),
    Err("Request failed") }

\* The Block built from a response.
Block(response) ==
  [id |-> response.block_id.hash,
   header |-> [version |-> response.block.header.version,
               time |-> response.block.header.time,
               height |-> parseInt(response.block.header.height),
               chainId |-> response.block.header.chain_id],
   txs |-> IF response.block.data.txs = Null THEN <<>>
           ELSE [i \in DOMAIN response.block.data.txs.value |->
                   fromBase64(response.block.data.txs.value[i])]]

\* getBlock up to its await.
GetBlockStart(p, arg) ==
  /\ pc[p] = "idle"
  /\ calls < MaxCalls
  /\ calls' = calls + 1
  /\ call' = [call EXCEPT ![p] = [op |-> "getBlock", arg |-> arg]]
  /\ requests' =
       [requests EXCEPT ![p] =
          IF "height" \in DOMAIN arg
          THEN <<[endpoint |-> "blocks", height |-> arg.height]>>
          ELSE <<Request("blocksLatest")>>]
  /\ pc' = [pc EXCEPT ![p] = "await"]
  /\ resp' = [resp EXCEPT ![p] = NoResult]
  /\ ret' = [ret EXCEPT ![p] = NoResult]
  /\ UNCHANGED <<anyValidAddress, observed, memoVars, searchVars, restVars>>

\* The block arrives and getBlock returns it.
GetBlockResume(p) ==
  /\ pc[p] = "await"
  /\ call[p].op = "getBlock"
  /\ \E response \in BlockResponses :
       /\ resp' = [resp EXCEPT ![p] = response]
       /\ ret' = [ret EXCEPT ![p] =
            IF response.kind = "error" THEN response
            ELSE Ok(Block(response.value))]
  /\ pc' = [pc EXCEPT ![p] = "idle"]
  /\ UNCHANGED <<call, calls, requests, anyValidAddress, observed, memoVars,
                 searchVars, restVars>>

\* What GET /wasm/code/{id}/contracts can answer: the contracts of the code,
\* null for none, a backend-declared error, or a failed request.
ListContractsResponses(codeId) ==
  { Ok(WasmResult(<<[address |-> "addr1", code_id |-> codeId,
                     creator |-> "creator", label |-> "hackatom"]>>)),
    Ok(WasmNull), Ok(WasmError("internal error")), Err("Request failed") }

\* getContracts from the response on: normalizeLcdApiArray turns null into
\* the empty list, and each entry becomes a Contract.
GetContractsResolved(response) ==
  LET result == Unwrapped(response)
  IN  IF result.kind = "error" THEN result
      ELSE IF result.kind = "null" THEN Ok(<<>>)
      ELSE Ok([i \in DOMAIN result.value |->
                 [address |-> result.value[i].address,
                  codeId |-> result.value[i].code_id,
                  creator |-> result.value[i].creator,
                  admin |-> Undefined,
                  label |-> result.value[i].label]])

\* getContracts up to its await.
GetContractsStart(p, codeId) ==
  /\ pc[p] = "idle"
  /\ calls < MaxCalls
  /\ calls' = calls + 1
  /\ call' = [call EXCEPT ![p] = [op |-> "getContracts", codeId |-> codeId]]
  /\ requests' =
       [requests EXCEPT ![p] =
          <<RequestFor("wasm.listContractsByCodeId", codeId)>>]
  /\ pc' = [pc EXCEPT ![p] = "await"]
  /\ resp' = [resp EXCEPT ![p] = NoResult]
  /\ ret' = [ret EXCEPT ![p] = NoResult]
  /\ UNCHANGED <<anyValidAddress, observed, memoVars, searchVars, restVars>>

\* getContracts taking the creator of a contract for a valid address, as
\* getCodes does with the creator of a code.
GetContractsResume_HintFromCreator(p) ==
  /\ pc[p] = "await"
  /\ call[p].op = "getContracts"
  /\ \E response \in ListContractsResponses(call[p].codeId) :
       /\ resp' = [resp EXCEPT ![p] = response]
       /\ ret' = [ret EXCEPT ![p] = GetContractsResolved(response)]
       /\ anyValidAddress' =
            IF ret'[p].kind = "ok" /\ ret'[p].value # <<>>
            THEN ret'[p].value[1].creator ELSE anyValidAddress
  /\ pc' = [pc EXCEPT ![p] = "idle"]
  /\ UNCHANGED <<call, calls, requests, observed, memoVars, searchVars,
                 restVars>>

\* The list arrives and getContracts returns the contracts.
GetContractsResume(p) ==
  /\ pc[p] = "await"
  /\ call[p].op = "getContracts"
  /\ \E response \in ListContractsResponses(call[p].codeId) :
       /\ resp' = [resp EXCEPT ![p] = response]
       /\ ret' = [ret EXCEPT ![p] = GetContractsResolved(response)]
  /\ pc' = [pc EXCEPT ![p] = "idle"]
  /\ UNCHANGED <<call, calls, requests, anyValidAddress, observed, memoVars,
                 searchVars, restVars>>

(***************************************************************************)
(* rest/api.ts: the swap and liquidity message builders.                   *)
(***************************************************************************)
\* ORAI of constants/constants: the denom of the native coin.
ORAI == "orai"

\* const oraiInfo.
oraiInfo == [native_token |-> [denom |-> ORAI]]

\* network.router, the contract the swap operations are sent to.
router == "router"

\* The tokens of the exchange: the native coin and two IBC tokens as the
\* token table lists them, and one cw20 token with its contract address.
TokenInfos ==
  { [name |-> "ORAI", denom |-> "orai"],
    [name |-> "ATOM", denom |-> "ibc/atom"],
    [name |-> "OSMO", denom |-> "ibc/osmosis"],
    [name |-> "AIRI", denom |-> "airi", contractAddress |-> "orai1airi"] }

\* pairs of constants/pools: the pools of the exchange, by the denoms of
\* their two assets.
pairs ==
  { [asset_denoms |-> <<"orai", "ibc/atom">>],
    [asset_denoms |-> <<"orai", "ibc/osmosis">>],
    [asset_denoms |-> <<"orai", "airi">>],
    [asset_denoms |-> <<"ibc/atom", "ibc/osmosis">>] }

\* getPair of constants/pools: the pool that holds both denoms, if any.
getPair(denoms) ==
  LET found == { pair \in pairs :
                   /\ \E i \in 1..2 : pair.asset_denoms[i] = denoms[1]
                   /\ \E i \in 1..2 : pair.asset_denoms[i] = denoms[2] }
  IN  IF found = {} THEN UndefinedValue ELSE CHOOSE pair \in found : TRUE

\* An amount is a number or a string.
Amounts == { [num |-> 0], [num |-> 5], [str |-> ""], [str |-> "5"] }

\* amount.toString().
toString(amount) ==
  IF "num" \in DOMAIN amount
  THEN [str |-> CASE amount.num = 0 -> "0" [] amount.num = 5 -> "5"]
  ELSE amount

\* if (amount): undefined, 0 and "" count as no amount.
Truthy(amount) ==
  /\ amount # UndefinedValue
  /\ amount # [num |-> 0]
  /\ amount # [str |-> ""]

\* parseTokenInfo.
parseTokenInfo(tokenInfo, amount) ==
  IF "contractAddress" \notin DOMAIN tokenInfo
  THEN IF Truthy(amount)
       THEN [fund |-> [denom |-> tokenInfo.denom, amount |-> amount],
             info |-> [native_token |-> [denom |-> tokenInfo.denom]]]
       ELSE [info |-> [native_token |-> [denom |-> tokenInfo.denom]]]
  ELSE [info |-> [token |-> [contract_addr |-> tokenInfo.contractAddress]]]

\* const { fund } = parseTokenInfo(...): undefined when there is none.
FundOf(parsed) ==
  IF "fund" \in DOMAIN parsed THEN parsed.fund ELSE UndefinedValue

\* a.localeCompare(b) on the denoms of the exchange.
localeCompare(a, b) ==
  LET order == <<"airi", "ibc/atom", "ibc/osmosis", "orai">>
      rank(d) == CHOOSE i \in 1..Len(order) : order[i] = d
  IN  IF rank(a) < rank(b) THEN -1 ELSE IF rank(a) = rank(b) THEN 0 ELSE 1

\* One step of the stable sort by denom: the fund goes behind every fund
\* that does not compare above it.
RECURSIVE InsertFund(_, _)
InsertFund(sorted, fund) ==
  IF sorted = <<>> THEN <<fund>>
  ELSE IF localeCompare(fund.denom, Head(sorted).denom) < 0
  THEN <<fund>> \o sorted
  ELSE <<Head(sorted)>> \o InsertFund(Tail(sorted), fund)

\* sent_funds.sort((a, b) => a.denom.localeCompare(b.denom)).
RECURSIVE sort(_)
sort(sent_funds) ==
  IF sent_funds = <<>> THEN <<>>
  ELSE InsertFund(sort(SubSeq(sent_funds, 1, Len(sent_funds) - 1)),
                  sent_funds[Len(sent_funds)])

\* handleSentFunds without the sort.
handleSentFunds_Unsorted(funds) ==
  LET sent_funds == SelectSeq(funds, LAMBDA fund : fund # UndefinedValue)
  IN  IF Len(sent_funds) = 0 THEN Null ELSE Array(sent_funds)

\* handleSentFunds.
handleSentFunds(funds) ==
  LET sent_funds == SelectSeq(funds, LAMBDA fund : fund # UndefinedValue)
  IN  IF Len(sent_funds) = 0 THEN Null ELSE Array(sort(sent_funds))

\* generateSwapOperationMsgs going through ORAI whatever the pair table says.
generateSwapOperationMsgs_AlwaysViaOrai(denoms, offerInfo, askInfo) ==
  << [orai_swap |-> [offer_asset_info |-> offerInfo,
                     ask_asset_info |-> oraiInfo]],
     [orai_swap |-> [offer_asset_info |-> oraiInfo,
                     ask_asset_info |-> askInfo]] >>

\* generateSwapOperationMsgs.
generateSwapOperationMsgs(denoms, offerInfo, askInfo) ==
  LET pair == getPair(denoms)
  IN  IF pair # UndefinedValue
      THEN << [orai_swap |-> [offer_asset_info |-> offerInfo,
                              ask_asset_info |-> askInfo]] >>
      ELSE << [orai_swap |-> [offer_asset_info |-> offerInfo,
                              ask_asset_info |-> oraiInfo]],
              [orai_swap |-> [offer_asset_info |-> oraiInfo,
                              ask_asset_info |-> askInfo]] >>

\* JSON.stringify(value) as bytes or as text, and the base64 of it: the
\* encodings are kept symbolic, a decoder has to take them off again.
Json(value) == [json |-> value]
Base64(text) == [base64 |-> text]

\* What the router answers to a smart query, as axios delivers it.
RouterResponses ==
  { Ok([data |-> [amount |-> "9"]]),
    Ok([code |-> 3, message |-> "query failed"]),
    Err("Network Error") }

\* querySmart from the response on.
QuerySmartResolved(response) ==
  IF response.kind = "error" THEN response
  ELSE IF "code" \in DOMAIN response.value
  THEN Err(response.value.message)
  ELSE Ok(response.value.data)

\* The msg simulateSwap builds.
SimulateSwapMsg(fromInfo, toInfo, amount) ==
  LET offerInfo == parseTokenInfo(fromInfo, toString(amount)).info
      askInfo == parseTokenInfo(toInfo, UndefinedValue).info
      operations ==
        generateSwapOperationMsgs(<<fromInfo.denom, toInfo.denom>>,
                                  offerInfo, askInfo)
  IN  [simulate_swap_operations |->
         [operations |-> operations, offer_amount |-> toString(amount)]]

\* simulateSwap up to the await of querySmart.
SimulateSwapStart(fromInfo, toInfo, amount) ==
  /\ apiPc = "idle"
  /\ apiSent' =
       [contract |-> router,
        params |-> Base64(Json(SimulateSwapMsg(fromInfo, toInfo, amount)))]
  /\ apiCall' = [op |-> "simulateSwap", fromInfo |-> fromInfo,
                 toInfo |-> toInfo, amount |-> amount]
  /\ apiRet' = NoResult
  /\ apiPc' = "await"
  /\ UNCHANGED <<searchVars, clientVars, callerVars, historyVars, pairsVars>>

\* The router's answer arrives and simulateSwap returns.
SimulateSwapResume ==
  /\ apiPc = "await"
  /\ \E response \in RouterResponses :
       apiRet' = QuerySmartResolved(response)
  /\ apiPc' = "idle"
  /\ UNCHANGED <<apiCall, apiSent>>
  /\ UNCHANGED <<searchVars, clientVars, callerVars, historyVars, pairsVars>>

\* The queries generateContractMessages is called with.
ContractQueries ==
  [type : {"Swap"}, fromInfo : TokenInfos, toInfo : TokenInfos,
   amount : Amounts, sender : {"orai1sender"}]
  \cup
  [type : {"Provide"}, fromInfo : TokenInfos, toInfo : TokenInfos,
   fromAmount : Amounts, toAmount : Amounts, sender : {"orai1sender"},
   pair : {"orai1pair"}]
  \cup
  [type : {"Withdraw"}, lpAddr : {"orai1lp"}, amount : Amounts,
   sender : {"orai1sender"}, pair : {"orai1pair"}]
  \cup
  [type : {"Increase allowance"}, amount : Amounts,
   sender : {"orai1sender"}, spender : {"orai1pair"}, token : {"orai1airi"}]

\* The SWAP case of generateContractMessages: sent_funds, input and
\* contractAddr.
SwapMessage(swapQuery) ==
  LET offer == parseTokenInfo(swapQuery.fromInfo, toString(swapQuery.amount))
      ask == parseTokenInfo(swapQuery.toInfo, UndefinedValue)
      inputTemp ==
        [execute_swap_operations |->
           [operations |->
              generateSwapOperationMsgs(
                <<swapQuery.fromInfo.name, swapQuery.toInfo.name>>,
                offer.info, ask.info)]]
  IN  IF "contractAddress" \notin DOMAIN swapQuery.fromInfo
      THEN [sent_funds |-> handleSentFunds(<<FundOf(offer), FundOf(ask)>>),
            input |-> inputTemp,
            contractAddr |-> router]
      ELSE [sent_funds |-> handleSentFunds(<<FundOf(offer), FundOf(ask)>>),
            input |-> [send |-> [contract |-> router,
                                 amount |-> toString(swapQuery.amount),
                                 msg |-> Base64(Json(inputTemp))]],
            contractAddr |-> swapQuery.fromInfo.contractAddress]

\* The PROVIDE case of generateContractMessages.
ProvideMessage(provideQuery) ==
  LET from == parseTokenInfo(provideQuery.fromInfo, provideQuery.fromAmount)
      to == parseTokenInfo(provideQuery.toInfo, provideQuery.toAmount)
  IN  [sent_funds |-> handleSentFunds(<<FundOf(from), FundOf(to)>>),
       input |-> [provide_liquidity |->
                    [assets |-> << [info |-> to.info,
                                    amount |-> provideQuery.toAmount],
                                   [info |-> from.info,
                                    amount |-> provideQuery.fromAmount] >>]],
       contractAddr |-> provideQuery.pair]

\* The WITHDRAW and INCREASE_ALLOWANCE cases: sent_funds stays undefined.
WithdrawMessage(withdrawQuery) ==
  [sent_funds |-> UndefinedValue,
   input |-> [send |-> [owner |-> withdrawQuery.sender,
                        contract |-> withdrawQuery.pair,
                        amount |-> withdrawQuery.amount,
                        msg |-> Base64(Json([withdraw_liquidity |->
                                               EmptyRecord]))]],
   contractAddr |-> withdrawQuery.lpAddr]

IncreaseAllowanceMessage(increaseAllowanceQuery) ==
  [sent_funds |-> UndefinedValue,
   input |-> [increase_allowance |->
                [amount |-> increaseAllowanceQuery.amount,
                 spender |-> increaseAllowanceQuery.spender]],
   contractAddr |-> increaseAllowanceQuery.token]

\* generateContractMessages: the one message it returns.
generateContractMessages(query) ==
  LET built == CASE query.type = "Swap" -> SwapMessage(query)
                 [] query.type = "Provide" -> ProvideMessage(query)
                 [] query.type = "Withdraw" -> WithdrawMessage(query)
                 [] query.type = "Increase allowance" ->
                      IncreaseAllowanceMessage(query)
  IN  << [contract |-> built.contractAddr,
          msg |-> Json(built.input),
          sender |-> query.sender,
          sent_funds |-> built.sent_funds] >>

\* A call of generateContractMessages.
GenerateContractMessages(query) ==
  /\ apiPc = "idle"
  /\ apiCall' = [op |-> "generateContractMessages", query |-> query]
  /\ apiSent' = NoResult
  /\ apiRet' = Ok(generateContractMessages(query))
  /\ UNCHANGED apiPc
  /\ UNCHANGED <<searchVars, clientVars, callerVars, historyVars, pairsVars>>

\* The funds handleSentFunds may be given: a fund or undefined.
Funds ==
  [denom : {"orai", "ibc/atom", "airi"}, amount : {[str |-> "5"]}]
  \cup {[denom |-> "orai", amount |-> [num |-> 5]]}

FundLists == SeqsUpTo(Funds \cup {UndefinedValue}, MaxFunds)

\* A call of handleSentFunds.
HandleSentFunds(funds) ==
  /\ apiPc = "idle"
  /\ apiCall' = [op |-> "handleSentFunds", funds |-> funds]
  /\ apiSent' = NoResult
  /\ apiRet' = handleSentFunds(funds)
  /\ UNCHANGED apiPc
  /\ UNCHANGED <<searchVars, clientVars, callerVars, historyVars, pairsVars>>

(***************************************************************************)
(* rest/useAPI.ts: loadPairs.                                              *)
(***************************************************************************)
\* oraiswapConfig.blacklist.map((blacklist) => blacklist.contract_addr).
blacklist == {"orai1bad"}

\* isAssetInfo.
isAssetInfo(object) == "token" \in DOMAIN object

\* isBlacklisted.
isBlacklisted(info) ==
  IF ~isAssetInfo(info) \/ info.token.contract_addr \notin blacklist
  THEN FALSE
  ELSE TRUE

\* The pairs a backend can list: of a native and a cw20 token, with the
\* blacklisted token first, with it second, and an entry without asset
\* infos.
PairInfos ==
  { [asset_infos |-> << [native_token |-> [denom |-> "orai"]],
                        [token |-> [contract_addr |-> "orai1good"]] >>,
     contract_addr |-> "pair1"],
    [asset_infos |-> << [token |-> [contract_addr |-> "orai1bad"]],
                        [native_token |-> [denom |-> "orai"]] >>,
     contract_addr |-> "pair2"],
    [asset_infos |-> << [token |-> [contract_addr |-> "orai1good"]],
                        [token |-> [contract_addr |-> "orai1bad"]] >>,
     contract_addr |-> "pair3"],
    [contract_addr |-> "pair4"] }

PairLists == SeqsUpTo(PairInfos, MaxPairs)

\* isBlacklisted(pair?.asset_infos?.[0]) with an entry that has no asset
\* infos: 'token' in undefined throws.
FilterThrows(list) ==
  \E i \in DOMAIN list : "asset_infos" \notin DOMAIN list[i]

NotAnObject == Err("Cannot use 'in' operator to search for 'token' in undefined")

\* The callback of filter looking at the first asset only.
KeepPair_FirstAssetOnly(pair) == ~isBlacklisted(pair.asset_infos[1])

\* The callback of filter.
KeepPair(pair) ==
  ~isBlacklisted(pair.asset_infos[1]) /\ ~isBlacklisted(pair.asset_infos[2])

\* What GET /pairs can answer: a list of pairs, a body without one, or a
\* failed request.
PrimaryResponses ==
  { Ok([pairs |-> list]) : list \in PairLists } \cup
  { Ok([error |-> "not found"]), Err("Network Error") }

\* What the factory can answer to a pairs query: a page, a body without a
\* pairs array, or a failed request.
FactoryResponses ==
  { Ok([result |-> [pairs |-> Array(list)]]) : list \in PairLists } \cup
  { Ok([error |-> "node down"]), Err("Network Error") }

\* The query for the page after lastPair.
FactoryRequest(start_after) ==
  [contract |-> "factory",
   msg |-> [pairs |-> [limit |-> 30, start_after |-> start_after]]]

\* The primary response makes loadPairs return: it has a non-empty list and
\* the filter gets through it. Everything else, the errors the catch block
\* logs included, leads to the fallback.
PrimaryReturns(response) ==
  /\ response.kind = "ok"
  /\ "pairs" \in DOMAIN response.value
  /\ Len(response.value.pairs) # 0
  /\ ~FilterThrows(response.value.pairs)

\* The factory response ends the loop: !Array.isArray(pairs?.result?.pairs),
\* or pairs.result.pairs.length <= 0.
BreaksLoop(response) ==
  \/ "result" \notin DOMAIN response.value
  \/ Len(response.value.result.pairs.value) <= 0

\* loadPairs up to the await of GET /pairs.
LoadPairsStart ==
  /\ lpPc = "idle"
  /\ lpResult' = <<>>
  /\ lastPair' = Null
  /\ lpRequests' = <<>>
  /\ lpPc' = "primary"
  /\ UNCHANGED <<lpResponse, lpRet>>
  /\ UNCHANGED <<searchVars, clientVars, callerVars, historyVars, apiVars>>

\* The answer of GET /pairs arrives: loadPairs returns the pairs that pass
\* the filter, or goes on to ask the factory for the first page.
LoadPairsPrimary ==
  /\ lpPc = "primary"
  /\ \E response \in PrimaryResponses :
       /\ lpResponse' = response
       /\ IF PrimaryReturns(response)
          THEN /\ lpResult' = SelectSeq(response.value.pairs, KeepPair)
               /\ lpRet' = Ok([pairs |-> lpResult'])
               /\ lpPc' = "done"
               /\ UNCHANGED lpRequests
          ELSE /\ lpRequests' = <<FactoryRequest(lastPair)>>
               /\ lpPc' = "fallback"
               /\ UNCHANGED <<lpResult, lpRet>>
  /\ UNCHANGED lastPair
  /\ UNCHANGED <<searchVars, clientVars, callerVars, historyVars, apiVars>>

\* A page of the factory arrives: loadPairs fails with the request, leaves
\* the loop and returns, or keeps the pairs that pass the filter and asks
\* for the page after the last pair.
LoadPairsPage ==
  /\ lpPc = "fallback"
  /\ \E response \in FactoryResponses :
       /\ lpResponse' = response
       /\ IF response.kind = "error"
          THEN /\ lpRet' = response
               /\ lpPc' = "done"
               /\ UNCHANGED <<lpResult, lastPair, lpRequests>>
          ELSE IF BreaksLoop(response)
          THEN /\ lpRet' = Ok([pairs |-> lpResult])
               /\ lpPc' = "done"
               /\ UNCHANGED <<lpResult, lastPair, lpRequests>>
          ELSE IF FilterThrows(response.value.result.pairs.value)
          THEN /\ lpRet' = NotAnObject
               /\ lpPc' = "done"
               /\ UNCHANGED <<lpResult, lastPair, lpRequests>>
          ELSE LET page == response.value.result.pairs.value
               IN  /\ Len(lpRequests) <= MaxPages
                   /\ lpResult' = lpResult \o SelectSeq(page, KeepPair)
                   /\ lastPair' = Array(page[Len(page)].asset_infos)
                   /\ lpRequests' =
                        Append(lpRequests, FactoryRequest(lastPair'))
                   /\ UNCHANGED <<lpPc, lpRet>>
  /\ UNCHANGED <<searchVars, clientVars, callerVars, historyVars, apiVars>>

(***************************************************************************)
(* Initial state: a freshly constructed client, no call made.              *)
(***************************************************************************)
Init ==
  /\ sPc = "idle"
  /\ sOp = "none"
  /\ sQuery = EmptyRecord
  /\ sFilter = EmptyRecord
  /\ sReqs = [s \in Slots |-> NoRequest]
  /\ sResult = NoResult
  /\ txsQueryCalls = 0
  /\ chainId = Undefined
  /\ codesCache = EmptyRecord
  /\ anyValidAddress = Undefined
  /\ pc = [p \in Callers |-> "idle"]
  /\ call = [p \in Callers |-> NoCall]
  /\ resp = [p \in Callers |-> NoResult]
  /\ ret = [p \in Callers |-> NoResult]
  /\ nodeInfoCalls = 0
  /\ getCodeCalls = 0
  /\ calls = 0
  /\ requests = [p \in Callers |-> <<>>]
  /\ firstChainId = Undefined
  /\ chainIdOverlap = FALSE
  /\ firstCodeDetails = EmptyRecord
  /\ observed = {}
  /\ apiPc = "idle"
  /\ apiCall = [op |-> "none"]
  /\ apiSent = NoResult
  /\ apiRet = NoResult
  /\ lpPc = "idle"
  /\ lpResult = <<>>
  /\ lastPair = Null
  /\ lpRequests = <<>>
  /\ lpResponse = NoResult
  /\ lpRet = NoResult

SearchNext ==
  \/ SearchTxStart
  \/ GetTxStart
  \/ \E slot \in Slots : TxsQueryRespond(slot)

SpecSearch == Init /\ [][SearchNext]_vars

Next ==
  \E p \in Callers :
    \/ GetChainIdStart(p)
    \/ GetChainIdResume(p)
    \/ \E codeId \in CodeIds : GetCodeDetailsStart(p, codeId)
    \/ GetCodeDetailsResume(p)

Spec == Init /\ [][Next]_vars

HintNext ==
  \E p \in Callers :
    \/ \E address \in Addresses : GetAccountStart(p, address)
    \/ GetAccountResume(p)
    \/ \E address \in Addresses : GetSequenceStart(p, address)
    \/ GetSequenceResume(p)
    \/ GetHeightStart(p)
    \/ GetHeightResume(p)
    \/ GetCodesStart(p)
    \/ GetCodesResume(p)

SpecHint == Init /\ [][HintNext]_vars

\* One caller using the client, one call after the other.
Caller == CHOOSE p \in Callers : \A q \in Callers : p <= q

\* The operations that write the memoized state: getChainId and
\* getCodeDetails calls of all callers overlapping at will, among them the
\* getAccount and getCodes calls of one caller.
MemoNext ==
  \/ \E p \in Callers :
       \/ GetChainIdStart(p)
       \/ GetChainIdResume(p)
       \/ \E codeId \in CodeIds : GetCodeDetailsStart(p, codeId)
       \/ GetCodeDetailsResume(p)
  \/ \E address \in Addresses : GetAccountStart(Caller, address)
  \/ GetAccountResume(Caller)
  \/ GetCodesStart(Caller)
  \/ GetCodesResume(Caller)

SpecMemo == Init /\ [][MemoNext]_vars

SequentialNext ==
  \/ GetChainIdStart(Caller)
  \/ GetChainIdResume(Caller)
  \/ \E codeId \in CodeIds : GetCodeDetailsStart(Caller, codeId)
  \/ GetCodeDetailsResume(Caller)
  \/ \E address \in Addresses : GetAccountStart(Caller, address)
  \/ GetAccountResume(Caller)
  \/ \E address \in Addresses : GetSequenceStart(Caller, address)
  \/ GetSequenceResume(Caller)
  \/ GetHeightStart(Caller)
  \/ GetHeightResume(Caller)
  \/ GetCodesStart(Caller)
  \/ GetCodesResume(Caller)
  \/ BroadcastTxStart(Caller)
  \/ BroadcastTxResume(Caller)
  \/ \E address \in Addresses : GetContractStart(Caller, address)
  \/ GetContractResume(Caller)
  \/ \E address \in Addresses : GetContractCodeHistoryStart(Caller, address)
  \/ GetContractCodeHistoryResume(Caller)
  \/ \E address \in Addresses : QueryContractRawStart(Caller, address)
  \/ QueryContractRawExists(Caller)
  \/ QueryContractRawResume(Caller)
  \/ \E address \in Addresses : QueryContractSmartStart(Caller, address)
  \/ QueryContractSmartResume(Caller)

SpecSequential == Init /\ [][SequentialNext]_vars

LcdNext ==
  \E p \in Callers :
    \/ \E address \in Addresses : WasmQueryContractRawStart(p, address)
    \/ WasmQueryContractRawResume(p)

SpecLcd == Init /\ [][LcdNext]_vars

\* One caller using every operation of the client, one call after the
\* other: fewer than MaxCalls calls, or one call and then a transaction
\* search by tags or a getTx, answered with at most one transaction.
AllOperationsNext ==
  \/ /\ sPc = "idle"
     /\ calls < MaxCalls - 1 \/ pc[Caller] # "idle"
     /\ \/ SequentialNext
        \/ GetIdentifierStart(Caller)
        \/ GetIdentifierResume(Caller)
        \/ \E arg \in BlockArgs : GetBlockStart(Caller, arg)
        \/ GetBlockResume(Caller)
        \/ \E codeId \in CodeIds : GetContractsStart(Caller, codeId)
        \/ GetContractsResume(Caller)
  \/ /\ pc[Caller] = "idle"
     /\ calls = 1
     /\ \/ SearchTxStart /\ sQuery' = [tags |-> "k=v"] /\ sFilter' = EmptyRecord
        \/ GetTxStart
  \/ TxsQueryRespond("query") /\ Len(sReqs'["query"].response.txs) <= 1

SpecAllOperations == Init /\ [][AllOperationsNext]_vars

ApiNext ==
  \/ \E fromInfo, toInfo \in TokenInfos, amount \in Amounts :
       SimulateSwapStart(fromInfo, toInfo, amount)
  \/ SimulateSwapResume
  \/ \E query \in ContractQueries : GenerateContractMessages(query)
  \/ \E funds \in FundLists : HandleSentFunds(funds)

SpecApi == Init /\ [][ApiNext]_vars

PairsNext ==
  \/ LoadPairsStart
  \/ LoadPairsPrimary
  \/ LoadPairsPage

SpecPairs == Init /\ [][PairsNext]_vars

(***************************************************************************)
(* The client instance: the properties.                                    *)
(***************************************************************************)
\* Caller p starts a call of the method in this step.
Starts(p, method) == call'[p] # call[p] /\ call'[p].op = method

\* The await of caller p's call of the method gets its response in this step.
Resumes(p, method) ==
  pc[p] = "await" /\ call[p].op = method /\ pc'[p] = "idle"

\* The callers suspended in the method.
InFlight(method) == { p \in Callers : pc[p] = "await" /\ call[p].op = method }

\* The callers suspended in getCodeDetails(codeId).
InFlightForCode(codeId) ==
  { p \in InFlight("getCodeDetails") : call[p].codeId = codeId }

\* C7: once the chain id is memoized, no step issues a nodeInfo request and
\* every getChainId call that starts returns the memoized value at once;
\* as long as no two getChainId calls have overlapped, the memoized value is
\* the value the first successful call returned.
C7_ChainIdFromMemo ==
  [][ /\ (~chainIdOverlap' /\ firstChainId' # Undefined) =>
           chainId' = firstChainId'
      /\ (chainId # Undefined /\ chainId # "") =>
           /\ nodeInfoCalls' = nodeInfoCalls
           /\ \A p \in Callers :
                Starts(p, "getChainId") =>
                  pc'[p] = "idle" /\ ret'[p] = Ok(chainId) ]_vars

\* C7 witness: one request was made, and the third call of a run of
\* getChainId calls was answered from the memo with the first call's value.
C7_Witness ==
  /\ nodeInfoCalls = 1
  /\ \E p \in Callers :
       /\ pc[p] = "idle"
       /\ call[p].op = "getChainId"
       /\ call[p].n = 3
       /\ resp[p] = NoResult
       /\ ret[p] = Ok(firstChainId)
  /\ firstChainId # Undefined
  /\ ~chainIdOverlap

\* C8 as claimed: concurrent getChainId callers do not each trigger a
\* nodeInfo request, so never are two of them waiting for a response.
C8_NoSeparateRequests == Cardinality(InFlight("getChainId")) <= 1

\* C8: a nodeInfo request is issued by exactly the getChainId calls that
\* start while the memo is unset, one request per such call (so callers
\* that start before the first resolution each issue their own), and by
\* nothing else.
C8_OneRequestPerCallWhileUnset ==
  [][ /\ \A p \in Callers :
           Starts(p, "getChainId") =>
             IF chainId = Undefined
             THEN nodeInfoCalls' = nodeInfoCalls + 1 /\ pc'[p] = "await"
             ELSE nodeInfoCalls' = nodeInfoCalls /\ pc'[p] = "idle"
      /\ (\A p \in Callers : ~Starts(p, "getChainId")) =>
           nodeInfoCalls' = nodeInfoCalls ]_vars

\* C8 witness: two callers started getChainId before either response came,
\* and two requests are out.
C8_Witness ==
  /\ Cardinality(InFlight("getChainId")) = 2
  /\ nodeInfoCalls = 2
  /\ chainId = Undefined

\* C9: when the network field of the response is empty or missing,
\* getChainId throws and leaves the memo as it was; the memo is never the
\* empty string, and a call that finds it unset asks the backend.
C9_EmptyChainIdRejected ==
  [][ /\ chainId' # ""
      /\ \A p \in Callers :
           /\ ( /\ Resumes(p, "getChainId")
                /\ resp'[p].kind = "ok"
                /\ resp'[p].value.network \in {"", Undefined} ) =>
                  /\ ret'[p] = Err("Chain ID must not be empty")
                  /\ chainId' = chainId
           /\ (Starts(p, "getChainId") /\ chainId = Undefined) =>
                nodeInfoCalls' = nodeInfoCalls + 1 ]_vars

\* C9 witness: a getChainId call failed on an empty network field, the memo
\* is unset, and the next call has sent a second request.
C9_Witness ==
  /\ chainId = Undefined
  /\ nodeInfoCalls = 2
  /\ \E p, q \in Callers :
       /\ pc[p] = "idle"
       /\ call[p].op = "getChainId"
       /\ resp[p] = Ok([network |-> ""])
       /\ ret[p].kind = "error"
       /\ pc[q] = "await"
       /\ call[q].op = "getChainId"
       /\ call[q].n = 2

\* C10 as claimed: once getCodeDetails(id) has succeeded, every
\* getCodeDetails(id) that starts later returns the result of that first
\* call, without a getCode request.
C10_LaterCallsReturnFirstResult ==
  [][ \A p \in Callers : \A id \in CodeIds :
        ( /\ Starts(p, "getCodeDetails")
          /\ call'[p].codeId = id
          /\ id \in DOMAIN firstCodeDetails ) =>
            /\ getCodeCalls' = getCodeCalls
            /\ ret'[p] = Ok(firstCodeDetails[id]) ]_vars

\* C10: once getCodeDetails(id) has succeeded, every getCodeDetails(id) that
\* starts later returns at once the entry cached under id, which is an
\* entry for id, without a getCode request and whatever the backend would
\* answer; the entry is the result of the first call as long as no call for
\* id that was in flight when the first one resolved has replaced it, and
\* with no call for id in flight the entry never changes.
C10_LaterCallsReturnCachedEntry ==
  [][ \A id \in CodeIds :
        id \in DOMAIN firstCodeDetails =>
          /\ id \in DOMAIN codesCache
          /\ \A p \in Callers :
               (Starts(p, "getCodeDetails") /\ call'[p].codeId = id) =>
                 /\ getCodeCalls' = getCodeCalls
                 /\ pc'[p] = "idle"
                 /\ ret'[p] = Ok(codesCache[id])
                 /\ ret'[p].value.id = id
                 /\ codesCache' = codesCache
          /\ InFlightForCode(id) = {} =>
               /\ codesCache'[id] = codesCache[id]
               /\ InFlightForCode(id)' = {}
          /\ (\A p \in Callers : ~Resumes(p, "getCodeDetails")) =>
               codesCache' = codesCache ]_vars

\* C10 witness: both code ids are cached with different code, the backend
\* was asked twice, and the third call, for the id fetched first, was
\* answered from the cache with the first call's result.
C10_Witness ==
  /\ DOMAIN codesCache = CodeIds
  /\ codesCache[1].data # codesCache[2].data
  /\ getCodeCalls = 2
  /\ \E p \in Callers :
       /\ pc[p] = "idle"
       /\ call[p].op = "getCodeDetails"
       /\ call[p].n = 3
       /\ call[p].codeId = 2
       /\ resp[p] = NoResult
       /\ ret[p] = Ok(firstCodeDetails[2])

(***************************************************************************)
(* The known-valid-address hint: the properties.                           *)
(***************************************************************************)
\* Caller p starts a call of the method in this step and is suspended at its
\* first await.
Begins(p, method) ==
  pc[p] = "idle" /\ pc'[p] = "await" /\ call'[p].op = method

\* The creators of the codes a getCodes call returned.
CreatorsOf(codes) == { codes[i].creator : i \in 1..Len(codes) }

\* C11: a getHeight call issues exactly one request: the latest block when
\* no response has shown an address to exist yet (so on a fresh client),
\* else the account of the recorded address, which is an address a response
\* has shown. A getAccount that returned an account and a getCodes that
\* returned at least one code record such an address.
C11_HeightRequestByHint ==
  [][ /\ observed' = {} => anyValidAddress' = Undefined
      /\ \A p \in Callers :
           /\ Begins(p, "getHeight") =>
                /\ Len(requests'[p]) = 1
                /\ IF observed = {}
                   THEN requests'[p][1].endpoint = "blocksLatest"
                   ELSE /\ requests'[p][1].endpoint = "auth.account"
                        /\ requests'[p][1].arg = anyValidAddress
                        /\ anyValidAddress \in observed
           /\ Resumes(p, "getHeight") => requests'[p] = requests[p]
           /\ (Resumes(p, "getAccount") /\ ret'[p].kind = "ok") =>
                /\ anyValidAddress' = ret'[p].value.address
                /\ anyValidAddress' \in observed'
           /\ ( /\ Resumes(p, "getCodes")
                /\ ret'[p].kind = "ok"
                /\ Len(ret'[p].value) > 0 ) =>
                  /\ anyValidAddress' \in CreatorsOf(ret'[p].value)
                  /\ CreatorsOf(ret'[p].value) \subseteq observed' ]_vars

\* C11 witness: a getHeight on the fresh client took the latest block; after
\* a getCodes that returned codes, a getHeight asked for the account of the
\* recorded creator.
C11_Witness ==
  \E p, q \in Callers :
    /\ call[p].op = "getHeight"
    /\ requests[p] = <<Request("blocksLatest")>>
    /\ ret[p].kind = "ok"
    /\ call[q].op = "getHeight"
    /\ requests[q] = <<RequestFor("auth.account", "addr2")>>
    /\ ret[q].kind = "ok"
    /\ observed = {"creator", "addr2"}

\* C12: for a record with an empty address getAccount returns undefined
\* without throwing and getSequence throws the account-does-not-exist error;
\* for a record with a non-empty address getSequence returns exactly the
\* accountNumber and sequence getAccount returns for that record (and fails
\* as getAccount fails when the record cannot be converted).
C12_SentinelAndSequence ==
  \A p \in Callers :
    (pc[p] = "idle" /\ resp[p].kind = "ok") =>
      /\ (call[p].op = "getAccount" /\ resp[p].value.address = "") =>
           ret[p] = ResolvedUndefined
      /\ (call[p].op = "getSequence" /\ resp[p].value.address = "") =>
           ret[p] = AccountNotFound
      /\ \A q \in Callers :
           ( /\ call[p].op = "getSequence"
             /\ call[q].op = "getAccount"
             /\ pc[q] = "idle"
             /\ resp[q] = resp[p]
             /\ resp[p].value.address # "" ) =>
               IF ret[q].kind = "ok"
               THEN ret[p] = Ok([accountNumber |-> ret[q].value.accountNumber,
                                 sequence |-> ret[q].value.sequence])
               ELSE ret[q].kind = "error" /\ ret[p] = ret[q]

\* C12 witness: for one address with an empty record, getAccount returned
\* undefined and getSequence threw.
C12_Witness ==
  \E p, q \in Callers :
    /\ pc[p] = "idle" /\ pc[q] = "idle"
    /\ call[p] = [op |-> "getSequence", address |-> "addr1"]
    /\ call[q] = [op |-> "getAccount", address |-> "addr1"]
    /\ resp[p].kind = "ok" /\ resp[p].value.address = ""
    /\ resp[q] = resp[p]
    /\ ret[q].kind = "undefined"
    /\ ret[p].kind = "error"

(***************************************************************************)
(* broadcastTx: the properties.                                            *)
(***************************************************************************)
\* The characters 0-9 and A-F.
UpperHexChars ==
  {"0", "1", "2", "3", "4", "5", "6", "7", "8", "9"} \cup
  {"A", "B", "C", "D", "E", "F"}

\* A non-empty, even-length string of characters 0-9 and A-F.
WellFormedTxHash(h) ==
  /\ h # <<>>
  /\ \E k \in 1..Len(h) : Len(h) = 2 * k
  /\ \A i \in 1..Len(h) : h[i] \in UpperHexChars

\* Caller p has finished a broadcastTx call.
Broadcast(p) == pc[p] = "idle" /\ call[p].op = "broadcastTx"

\* C13: broadcastTx returns a result only when the request succeeded and
\* the txhash of the response is well formed; for every other txhash it
\* throws the ill-formatted-txhash error, whatever else the response holds.
C13_OnlyWellFormedHashReturns ==
  \A p \in Callers :
    Broadcast(p) =>
      IF resp[p].kind = "ok"
      THEN IF WellFormedTxHash(resp[p].value.txhash)
           THEN /\ ret[p].kind = "ok"
                /\ ret[p].value.transactionHash = resp[p].value.txhash
           ELSE ret[p] = IllFormattedTxHash
      ELSE ret[p].kind = "error"

\* C13 witness: a response with a lower-case hex txhash and a code was
\* rejected.
C13_Witness ==
  \E p \in Callers :
    /\ Broadcast(p)
    /\ resp[p].kind = "ok"
    /\ resp[p].value.txhash = <<"a", "a">>
    /\ "code" \in DOMAIN resp[p].value
    /\ ret[p].kind = "error"

\* C14: for a well-formed txhash broadcastTx returns one of two shapes,
\* chosen by whether the response has a code: with a code (0 included)
\* {height, transactionHash, code, rawLog} with that code, without one
\* {logs, rawLog, transactionHash, data}, data being undefined when the
\* response has none. No result has fields of both shapes.
C14_ShapeByCodePresence ==
  \A p \in Callers :
    ( /\ Broadcast(p)
      /\ resp[p].kind = "ok"
      /\ WellFormedTxHash(resp[p].value.txhash) ) =>
        /\ ret[p].kind = "ok"
        /\ ret[p].value.transactionHash = resp[p].value.txhash
        /\ IF "code" \in DOMAIN resp[p].value
           THEN /\ DOMAIN ret[p].value =
                     {"height", "transactionHash", "code", "rawLog"}
                /\ ret[p].value.code = resp[p].value.code
           ELSE /\ DOMAIN ret[p].value \cup {"data"} =
                     {"logs", "rawLog", "transactionHash", "data"}
                /\ "data" \in DOMAIN ret[p].value <=>
                     "data" \in DOMAIN resp[p].value

\* C14 witness: a response with code 0 gave the shape with height and code.
C14_Witness ==
  \E p \in Callers :
    /\ Broadcast(p)
    /\ resp[p].kind = "ok"
    /\ "code" \in DOMAIN resp[p].value
    /\ resp[p].value.code = 0
    /\ "data" \in DOMAIN resp[p].value
    /\ ret[p].kind = "ok"
    /\ ret[p].value.code = 0
    /\ ret[p].value.height = 5

(***************************************************************************)
(* The contract operations: the properties.                                *)
(***************************************************************************)
\* Caller p has finished a call of the method.
Finished(p, method) == pc[p] = "idle" /\ call[p].op = method

\* The response is { result: null }.
NullResult(response) ==
  response.kind = "ok" /\ "null" \in DOMAIN response.value

\* The response is { result } with a result that is not null.
SomeResult(response) ==
  response.kind = "ok" /\ "result" \in DOMAIN response.value

\* The error is the not-found error with this text, naming the address.
NotFoundNaming(error, text, address) ==
  /\ error.kind = "error"
  /\ error.message = text
  /\ "address" \in DOMAIN error
  /\ error.address = address

C16_ExistenceCheckFirst ==
  [][ \A p \in Callers :
        /\ Begins(p, "queryContractRaw") =>
             requests'[p] =
               <<RequestFor("wasm.getContractInfo", call'[p].address)>>
        /\ (call[p].op = "queryContractRaw" /\ pc[p] = "await"
            /\ pc'[p] # "await") =>
             IF SomeResult(resp'[p])
             THEN /\ pc'[p] = "awaitRaw"
                  /\ requests'[p] =
                       Append(requests[p],
                              RequestFor("wasm.queryContractRaw",
                                         call[p].address))
             ELSE /\ pc'[p] = "idle"
                  /\ requests'[p] = requests[p]
                  /\ ret'[p].kind = "error"
                  /\ NullResult(resp'[p]) =>
                       NotFoundNaming(ret'[p], "No contract found at address",
                                      call[p].address)
        /\ (call[p].op = "queryContractRaw" /\ pc[p] = "awaitRaw") =>
             /\ requests'[p] = requests[p]
             /\ pc'[p] \in {"awaitRaw", "idle"}
        /\ (call'[p].op = "queryContractRaw" /\ ret'[p].kind = "null") =>
             /\ Len(requests'[p]) = 2
             /\ pc[p] \in {"awaitRaw", "idle"} ]_vars

\* C16 witness: there was no contract at the address; queryContractRaw threw
\* the no-contract-found error and sent no raw lookup.
C16_Witness ==
  \E p \in Callers :
    /\ Finished(p, "queryContractRaw")
    /\ NullResult(resp[p])
    /\ requests[p] = <<RequestFor("wasm.getContractInfo", "addr1")>>
    /\ ret[p] = NoContractFound("addr1")

\* C17: queryContractSmart throws the no-contract-found error naming the
\* address exactly when the error it caught is an Error whose message
\* begins with "not found: contract"; every other Error and everything
\* thrown that is no Error reaches the caller unchanged, and a parsed
\* document is returned.
C17_TranslatesOnlyNotFoundPrefix ==
  \A p \in Callers :
    Finished(p, "queryContractSmart") =>
      IF resp[p].kind \in {"error", "thrown"}
      THEN ret[p] = resp[p]
      ELSE IF "error" \in DOMAIN resp[p].value
      THEN IF resp[p].value.error \in
                { "not found: contract",
                  "not found: contract: unknown address" }
           THEN NotFoundNaming(ret[p], "No contract found at address",
                               call[p].address)
           ELSE ret[p] = Err(resp[p].value.error)
      ELSE IF resp[p].value.result.smart = "eyJ2IjoxfQ=="
      THEN ret[p] = Ok([v |-> 1])
      ELSE ret[p] = Err("Unexpected token in JSON")

\* C17 witness: the backend declared an error that begins with the phrase
\* and the caller got the no-contract-found error for its address.
C17_Witness ==
  \E p \in Callers :
    /\ Finished(p, "queryContractSmart")
    /\ resp[p] = Ok(WasmError("not found: contract: unknown address"))
    /\ ret[p] = NoContractFound("addr2")

(***************************************************************************)
(* searchTx: the two concurrent searches.                                  *)
(***************************************************************************)
\* C18: a sent-from-or-to search issues both of its searches in the step
\* that starts it, so that both are in flight together; it returns a
\* sequence only in the step in which the second of the two responses
\* arrives, and that sequence is a function of the sent response and the
\* received response alone, whichever arrived first.
C18_BothInFlightOrderIrrelevant ==
  [][ /\ ( /\ sPc = "idle"
           /\ sPc' = "await"
           /\ sOp' = "searchTx"
           /\ isSearchBySentFromOrToQuery(sQuery') ) =>
             /\ sReqs'["sent"] = Pending
             /\ sReqs'["received"] = Pending
             /\ txsQueryCalls' = txsQueryCalls + 2
      /\ ( /\ sOp' = "searchTx"
           /\ isSearchBySentFromOrToQuery(sQuery')
           /\ sResult'.kind = "ok"
           /\ ~EmptyRange(sFilter') ) =>
             /\ sReqs'["sent"].state = "arrived"
             /\ sReqs'["received"].state = "arrived"
             /\ sResult' =
                  SearchTxReturn(Merge(Fetched("sent")', Fetched("received")'),
                                 sFilter') ]_vars

\* C18 witness: the received search has answered, the sent search is still
\* in flight, and the call is waiting without a result.
C18_Witness ==
  /\ sOp = "searchTx"
  /\ sPc = "await"
  /\ sReqs["received"].state = "arrived"
  /\ Len(sReqs["received"].response.txs) > 0
  /\ sReqs["sent"] = Pending
  /\ sResult = NoResult

(***************************************************************************)
(* getAccount and the hint.                                                *)
(***************************************************************************)
\* C20: getAccount records the hint exactly on success: a call that returns
\* an account leaves the hint at the address of the record, and a call that
\* returns undefined or throws leaves the hint as it was.
C20_HintSetExactlyOnSuccess ==
  [][ \A p \in Callers :
        Resumes(p, "getAccount") =>
          IF ret'[p].kind = "ok"
          THEN anyValidAddress' = resp'[p].value.address
          ELSE anyValidAddress' = anyValidAddress ]_vars

(***************************************************************************)
(* Failures of backend requests.                                           *)
(***************************************************************************)
\* The request failed: the transport failed (or threw), or the backend
\* declared an error in its response.
FailedResponse(response) ==
  \/ response.kind \in {"error", "thrown"}
  \/ response.kind = "ok" /\ "error" \in DOMAIN response.value

\* The error of a failed request.
ErrorOf(response) ==
  IF response.kind = "ok" THEN Err(response.value.error) ELSE response

\* The response to caller p's pending request arrives in this step.
Answered(p) == pc[p] \in {"await", "awaitRaw"} /\ pc'[p] # pc[p]

RECURSIVE IsSubseq(_, _)
\* s can be got from t by leaving entries out.
IsSubseq(s, t) ==
  \/ s = <<>>
  \/ /\ t # <<>>
     /\ IF Head(s) = Head(t) THEN IsSubseq(Tail(s), Tail(t))
        ELSE IsSubseq(s, Tail(t))

\* The entries of txs whose hash is in hashes, in the order of txs.
Restricted(txs, hashes) == SelectSeq(txs, LAMBDA tx : tx.hash \in hashes)

\* C21: in the merged sequence (the result of an unfiltered search) the
\* entries that only the sent list holds keep the order of the sent list,
\* and the entries of the received list keep the order of the received
\* list, none of them left out; of two heads of equal height and different
\* hashes the sent one comes first; and when one list is empty the result is
\* the other list unchanged, so the merged sequence ends with the last entry
\* of one of the lists.
C21_MergeKeepsListOrder ==
  (SentFromOrToReturned /\ DOMAIN sFilter = {}) =>
    LET A == Fetched("sent")
        B == Fetched("received")
        M == sResult.value
        onlyA == HashesOf(A) \ HashesOf(B)
    IN  /\ Restricted(M, onlyA) = Restricted(A, onlyA)
        /\ IsSubseq(B, M)
        /\ HashesOf(M) = HashesOf(A) \cup HashesOf(B)
        /\ ( /\ A # <<>> /\ B # <<>>
             /\ A[1].hash # B[1].hash
             /\ A[1].height = B[1].height ) =>
               M[1] = A[1] /\ M[2] \in {B[1]} \cup {A[i] : i \in 2..Len(A)}
        /\ A = <<>> => M = B
        /\ B = <<>> => M = A
        /\ M # <<>> =>
             \/ A # <<>> /\ M[Len(M)] = A[Len(A)]
             \/ B # <<>> /\ M[Len(M)] = B[Len(B)]

\* C21 witness: both lists hold two entries, their heads have the same
\* height and different hashes, and the merged sequence starts with the sent
\* head followed by the received head.
C21_Witness ==
  /\ SentFromOrToReturned
  /\ DOMAIN sFilter = {}
  /\ Len(Fetched("sent")) = 2
  /\ Len(Fetched("received")) = 2
  /\ HashesOf(Fetched("sent")) \cap HashesOf(Fetched("received")) = {}
  /\ Fetched("sent")[1].height = Fetched("received")[1].height
  /\ Fetched("sent")[2].height > Fetched("received")[1].height
  /\ sResult.value[1] = Fetched("sent")[1]
  /\ sResult.value[2] = Fetched("received")[1]
  /\ Len(sResult.value) = 4

(***************************************************************************)
(* The LCD extension's wasm.queryContractRaw.                              *)
(***************************************************************************)
\* C22: wasm.queryContractRaw sends the raw lookup only, and returns null
\* exactly when the unwrapped result is an empty array, null or an empty
\* string, whatever the address (the backend answers so for a missing key
\* and for an address without a contract); otherwise it returns the decoded
\* first element of the array or the decoded string; a failed request or a
\* declared error is thrown.
C22_RawNullForEmptyData ==
  \A p \in Callers :
    Finished(p, "wasm.queryContractRaw") =>
      /\ requests[p] =
           <<RequestFor("wasm.queryContractRaw", call[p].address)>>
      /\ IF FailedResponse(resp[p])
         THEN ret[p] = ErrorOf(resp[p])
         ELSE IF \/ "null" \in DOMAIN resp[p].value
                 \/ resp[p].value.result = [array |-> <<>>]
                 \/ resp[p].value.result = [string |-> ""]
         THEN ret[p] = ResolvedNull
         ELSE IF "array" \in DOMAIN resp[p].value.result
         THEN ret[p] = Ok(fromBase64(resp[p].value.result.array[1].val))
         ELSE ret[p] = Ok(fromBase64(resp[p].value.result.string))

\* C22 witness: one call was answered with an empty string and returned
\* null, another with an array of two models and returned the first one
\* decoded.
C22_Witness ==
  \E p, q \in Callers :
    /\ Finished(p, "wasm.queryContractRaw")
    /\ resp[p] = Ok(WasmResult([string |-> ""]))
    /\ ret[p] = ResolvedNull
    /\ Finished(q, "wasm.queryContractRaw")
    /\ SomeResult(resp[q])
    /\ "array" \in DOMAIN resp[q].value.result
    /\ Len(resp[q].value.result.array) = 2
    /\ ret[q] = Ok(<<1>>)

(***************************************************************************)
(* rest/api.ts: the route of a swap.                                       *)
(***************************************************************************)
\* The asset info of a token: its contract for a cw20 token, its denom for
\* a native one.
AssetInfoOf(tokenInfo) ==
  IF "contractAddress" \in DOMAIN tokenInfo
  THEN [token |-> [contract_addr |-> tokenInfo.contractAddress]]
  ELSE [native_token |-> [denom |-> tokenInfo.denom]]

\* The pair table holds a pool of the two tokens.
DirectPair(fromInfo, toInfo) ==
  \E pair \in pairs :
    {fromInfo.denom, toInfo.denom} \subseteq
      {pair.asset_denoms[1], pair.asset_denoms[2]}

\* One hop.
Hop(offer, ask) ==
  [orai_swap |-> [offer_asset_info |-> offer, ask_asset_info |-> ask]]

\* The operations in the query simulateSwap has sent.
SimulatedOperations ==
  apiSent.params.base64.json.simulate_swap_operations.operations

ExecutedOperations ==
  LET input == apiRet.value[1].msg.json
  IN  IF "send" \in DOMAIN input
      THEN input.send.msg.base64.json.execute_swap_operations.operations
      ELSE input.execute_swap_operations.operations

\* C28 as claimed: the operations generateContractMessages builds for a swap
\* are the operations simulateSwap builds for the same two tokens and amount.
C28_QuotedRouteIsExecutedRoute ==
  (apiCall.op = "generateContractMessages" /\ apiCall.query.type = "Swap") =>
    ExecutedOperations =
      SimulateSwapMsg(apiCall.query.fromInfo, apiCall.query.toInfo,
                      apiCall.query.amount)
        .simulate_swap_operations.operations

(***************************************************************************)
(* rest/api.ts: the funds sent with a message.                             *)
(***************************************************************************)
\* The elements of a sequence, and how often one occurs in it.
Elements(seq) == { seq[i] : i \in DOMAIN seq }
Count(seq, x) == Cardinality({ i \in DOMAIN seq : seq[i] = x })

\* The two sides of a swap or provide query: a token and the amount given
\* for it (a swap gives its amount as a string, and none for the ask side).
Sides(query) ==
  IF query.type = "Swap"
  THEN { [token |-> query.fromInfo, amount |-> toString(query.amount)],
         [token |-> query.toInfo, amount |-> UndefinedValue] }
  ELSE { [token |-> query.fromInfo, amount |-> query.fromAmount],
         [token |-> query.toInfo, amount |-> query.toAmount] }

\* C29: handleSentFunds returns null exactly when no argument is a fund, and
\* otherwise the funds among its arguments, each as often as it was given,
\* ascending by denom; and every fund generateContractMessages attaches to a
\* swap or provide message is the denom and amount of a side whose token is
\* native (has no contract address) and whose amount is given and not
\* empty, so funds are null when no side is such.
C29_SentFundsAreTheDefinedFunds ==
  /\ apiCall.op = "handleSentFunds" =>
       LET defined == SelectSeq(apiCall.funds,
                                LAMBDA fund : fund # UndefinedValue)
       IN  /\ apiRet = Null <=> defined = <<>>
           /\ defined # <<>> =>
                /\ apiRet.kind = "array"
                /\ Len(apiRet.value) = Len(defined)
                /\ \A fund \in Elements(defined) \cup Elements(apiRet.value) :
                     Count(apiRet.value, fund) = Count(defined, fund)
                /\ \A i, j \in DOMAIN apiRet.value :
                     i < j => localeCompare(apiRet.value[i].denom,
                                            apiRet.value[j].denom) <= 0
  /\ (/\ apiCall.op = "generateContractMessages"
      /\ apiCall.query.type \in {"Swap", "Provide"}) =>
       LET sent_funds == apiRet.value[1].sent_funds
           funded == { side \in Sides(apiCall.query) :
                         /\ "contractAddress" \notin DOMAIN side.token
                         /\ side.amount # UndefinedValue
                         /\ side.amount # [str |-> ""] }
       IN  /\ sent_funds.kind \in {"null", "array"}
           /\ funded = {} => sent_funds = Null
           /\ sent_funds.kind = "array" =>
                \A fund \in Elements(sent_funds.value) :
                  \E side \in funded :
                    /\ fund.denom = side.token.denom
                    /\ fund.amount = side.amount

\* C29 witness: liquidity of two native tokens was provided, and the funds
\* attached are the two amounts with the denoms in ascending order, the
\* reverse of the order the sides were given in.
C29_Witness ==
  /\ apiCall.op = "generateContractMessages"
  /\ apiCall.query.type = "Provide"
  /\ apiCall.query.fromInfo.denom = "orai"
  /\ apiCall.query.toInfo.denom = "ibc/atom"
  /\ apiRet.value[1].sent_funds =
       Array(<< [denom |-> "ibc/atom", amount |-> apiCall.query.toAmount],
                [denom |-> "orai", amount |-> apiCall.query.fromAmount] >>)

(***************************************************************************)
(* The memoized state over the life of a client instance.                  *)
(***************************************************************************)
\* C24 as claimed: a set chain-id memo and a cached code entry never change,
\* and a set hint never becomes unset.
C24_MemoOnlyGrows ==
  [][ /\ chainId # Undefined => chainId' = chainId
      /\ \A id \in DOMAIN codesCache :
           id \in DOMAIN codesCache' /\ codesCache'[id] = codesCache[id]
      /\ anyValidAddress # Undefined => anyValidAddress' # Undefined ]_vars

\* C24: a set chain-id memo is never cleared, and it changes only when a
\* getChainId call resolves that was in flight before the memo was set (once
\* it is set no further call goes in flight); a cached code id is never
\* removed, and its entry changes only when a getCodeDetails call for that
\* id resolves that was in flight before the id was cached; a set hint never
\* becomes unset, and when it changes it becomes an address a backend
\* response has shown.
C24_MemoChangesOnlyByInFlight ==
  [][ /\ chainId # Undefined =>
           /\ chainId' # Undefined
           /\ InFlight("getChainId")' \subseteq InFlight("getChainId")
           /\ chainId' # chainId =>
                \E p \in InFlight("getChainId") : Resumes(p, "getChainId")
      /\ \A id \in DOMAIN codesCache :
           /\ id \in DOMAIN codesCache'
           /\ InFlightForCode(id)' \subseteq InFlightForCode(id)
           /\ codesCache'[id] # codesCache[id] =>
                \E p \in InFlightForCode(id) : Resumes(p, "getCodeDetails")
      /\ anyValidAddress # Undefined =>
           /\ anyValidAddress' # Undefined
           /\ anyValidAddress' # anyValidAddress =>
                anyValidAddress' \in observed' ]_vars

\* C24 witness: the chain id is memoized, and the hint has been set by one
\* account response and replaced by another.
C24_Witness ==
  /\ chainId # Undefined
  /\ observed = Addresses
  /\ anyValidAddress \in Addresses
  /\ \E p \in Callers :
       /\ Finished(p, "getAccount")
       /\ ret[p].kind = "ok"
       /\ ret[p].value.address = anyValidAddress

(***************************************************************************)
(* getCodeDetails: overlapping and failing calls.                          *)
(***************************************************************************)
\* C25 as claimed: never are two getCodeDetails calls for one id waiting for
\* a response of their own, and after a getCodeDetails call has failed its
\* id is not in the cache.
C25_OverlapSharesOneRequest ==
  [][ /\ \A id \in CodeIds : Cardinality(InFlightForCode(id)') <= 1
      /\ \A p \in Callers :
           (Resumes(p, "getCodeDetails") /\ ret'[p].kind = "error") =>
             call[p].codeId \notin DOMAIN codesCache' ]_vars

\* C25: every getCodeDetails call that starts while its id is not cached
\* sends its own getCode request for that id, whether or not another call
\* for the id is waiting, and a call that starts once the id is cached sends
\* none; a getCodeDetails call that fails leaves the cache as it was, so it
\* adds no entry for its id.
C25_OneRequestPerCallWhileUncached ==
  [][ \A p \in Callers :
        /\ Starts(p, "getCodeDetails") =>
             IF call'[p].codeId \in DOMAIN codesCache
             THEN /\ getCodeCalls' = getCodeCalls
                  /\ requests'[p] = <<>>
                  /\ pc'[p] = "idle"
             ELSE /\ getCodeCalls' = getCodeCalls + 1
                  /\ requests'[p] =
                       <<RequestFor("wasm.getCode", call'[p].codeId)>>
                  /\ pc'[p] = "await"
        /\ (Resumes(p, "getCodeDetails") /\ ret'[p].kind = "error") =>
             codesCache' = codesCache ]_vars

\* C25 witness: a getCodeDetails call has failed and left the cache empty,
\* and two later calls for one id, the second started before the first's
\* response, wait for the two requests they have sent.
C25_Witness ==
  \E id \in CodeIds :
    /\ Cardinality(InFlightForCode(id)) = 2
    /\ getCodeCalls = 3
    /\ id \notin DOMAIN codesCache
    /\ codesCache = EmptyRecord

(***************************************************************************)
(* broadcastTx: one submission, checked afterwards.                        *)
(***************************************************************************)
\* C26: a broadcastTx call submits the transaction once when it starts and
\* sends nothing more until it ends, and the ill-formatted-txhash error
\* appears only as the outcome of a broadcastTx call whose one request has
\* been answered successfully.
C26_SubmittedOnceBeforeHashCheck ==
  [][ \A p \in Callers :
        /\ Begins(p, "broadcastTx") =>
             requests'[p] = <<Request("broadcastTx")>>
        /\ Resumes(p, "broadcastTx") => requests'[p] = requests[p]
        /\ (ret'[p] = IllFormattedTxHash /\ ret[p] # IllFormattedTxHash) =>
             /\ Resumes(p, "broadcastTx")
             /\ resp'[p].kind = "ok"
             /\ requests'[p] = <<Request("broadcastTx")>> ]_vars

\* C26 witness: a broadcastTx call has ended with the ill-formatted-txhash
\* error after the one request it sent was answered with an empty txhash.
C26_Witness ==
  \E p \in Callers :
    /\ Broadcast(p)
    /\ ret[p] = IllFormattedTxHash
    /\ resp[p].kind = "ok"
    /\ resp[p].value.txhash = <<>>
    /\ requests[p] = <<Request("broadcastTx")>>

(***************************************************************************)
(* Which operations write the memoized state.                              *)
(***************************************************************************)
\* The operations that only read the memoized state.
ReadOnlyOperations ==
  { "getBlock", "getHeight", "getIdentifier", "broadcastTx", "getContracts",
    "getContract", "getContractCodeHistory", "queryContractRaw",
    "queryContractSmart" }

\* Caller p takes a step of a call of the method.
StepOf(p, method) ==
  /\ <<pc[p], call[p], resp[p], ret[p]>>' # <<pc[p], call[p], resp[p], ret[p]>>
  /\ call'[p].op = method

\* C27: the chain-id memo changes only when a getChainId call resolves, the
\* code cache only when a getCodeDetails call resolves, and the hint only
\* when a getAccount, getCodes or getSequence call resolves, getSequence
\* changing it to what getAccount makes of the same response; no step of
\* searchTx, getTx or one of the other operations changes any of the three,
\* whether the step ends the call with a result or with an error.
C27_OnlyFourOperationsWriteMemo ==
  [][ /\ chainId' # chainId =>
           \E p \in Callers : Resumes(p, "getChainId")
      /\ codesCache' # codesCache =>
           \E p \in Callers : Resumes(p, "getCodeDetails")
      /\ anyValidAddress' # anyValidAddress =>
           \E p \in Callers :
             \/ Resumes(p, "getAccount")
             \/ Resumes(p, "getCodes")
             \/ /\ Resumes(p, "getSequence")
                /\ anyValidAddress' =
                     GetAccountResolved(resp'[p], anyValidAddress)
                       .anyValidAddress
      /\ (\E p \in Callers, method \in ReadOnlyOperations : StepOf(p, method))
           => clientVars' = clientVars
      /\ searchVars' # searchVars => clientVars' = clientVars ]_vars

\* C27 witness: with the hint set by the first call, getContracts has
\* returned a contract of another creator, and the hint is the only
\* memoized state there is.
C27_Witness ==
  /\ anyValidAddress \in Addresses
  /\ chainId = Undefined
  /\ codesCache = EmptyRecord
  /\ Finished(Caller, "getContracts")
  /\ ret[Caller].kind = "ok"
  /\ ret[Caller].value # <<>>
  /\ ret[Caller].value[1].creator # anyValidAddress

(***************************************************************************)
(* rest/useAPI.ts: the pairs loadPairs returns.                            *)
(***************************************************************************)
\* The asset is a token contract on the blacklist.
BlacklistedContract(info) ==
  "token" \in DOMAIN info /\ info.token.contract_addr \in blacklist

\* No pair of the list has a blacklisted token contract as its first or
\* second asset.
FreeOfBlacklisted(list) ==
  \A i \in DOMAIN list :
    /\ ~BlacklistedContract(list[i].asset_infos[1])
    /\ ~BlacklistedContract(list[i].asset_infos[2])

\* A factory response arrives in this step.
PageArrives ==
  lpPc = "fallback" /\ (lpPc' # lpPc \/ lpRequests' # lpRequests)

\* The factory response is an empty page or has no pairs array.
EndOfPairs(response) ==
  /\ response.kind = "ok"
  /\ \/ "result" \notin DOMAIN response.value
     \/ response.value.result.pairs.value = <<>>

\* C30: the pairs loadPairs has collected and the pairs it returns, from the
\* primary endpoint or from the pages of the factory, hold no pair with a
\* blacklisted token contract as first or second asset; and when the factory
\* answers with an empty page or without a pairs array, loadPairs sends no
\* further request and returns what it has collected, while after a page
\* with pairs it asks for the page after the last pair of that page.
C30_NoBlacklistedPairLoopEnds ==
  [][ /\ FreeOfBlacklisted(lpResult')
      /\ lpRet'.kind = "ok" =>
           lpRet'.value.pairs = lpResult' /\ lpPc' = "done"
      /\ PageArrives =>
           IF EndOfPairs(lpResponse')
           THEN /\ lpPc' = "done"
                /\ lpRequests' = lpRequests
                /\ lpRet' = Ok([pairs |-> lpResult])
           ELSE IF lpResponse'.kind = "ok" /\ lpPc' = "fallback"
           THEN LET page == lpResponse'.value.result.pairs.value
                IN  /\ Len(lpRequests') = Len(lpRequests) + 1
                    /\ lpRequests'[Len(lpRequests')].msg.pairs.start_after =
                         Array(page[Len(page)].asset_infos)
           ELSE lpRet'.kind = "error" /\ lpRequests' = lpRequests ]_vars

\* C30 witness: the primary endpoint had no pairs, the factory was asked for
\* three pages, two with blacklisted pairs and the third empty, and the call
\* returned the one pair that is free of blacklisted tokens.
C30_Witness ==
  /\ lpPc = "done"
  /\ Len(lpRequests) = 3
  /\ lpResponse = Ok([result |-> [pairs |-> Array(<<>>)]])
  /\ lastPair.kind = "array"
  /\ BlacklistedContract(lastPair.value[2])
  /\ lpRet.kind = "ok"
  /\ Len(lpRet.value.pairs) = 1

=============================================================================
